---------------------------- MODULE Spec2Model ----------------------------
(***************************************************************************)
(* gosoup: lazy, cancelable iteration over a parsed HTML tree.             *)
(*                                                                         *)
(* The model follows src/iterators.go (NodeIterator, TreeIterator,         *)
(* recIterateOnDescendants), src/gosoup.go (Children, Descendants) and     *)
(* src/node.go (Node, CleanData, IsBlankText).  Every goroutine is a       *)
(* process with a program counter; a Go channel is a queue (buffered) or   *)
(* a rendezvous between a sender waiting in "send" and its receiver        *)
(* (unbuffered).                                                           *)
(***************************************************************************)
EXTENDS Integers, Sequences, FiniteSets, TLC

\* ------------------------------------------------------------------ bounds
MaxNodes == 4       \* small trees: every shape with at most this many nodes
MaxLimit == 1       \* Limit(max) is tried for max in 0..MaxLimit
MaxCloses == 2      \* calls of Close() the consumer makes
MaxFirsts == 1      \* calls of First() the consumer makes
MaxDrains == 1      \* calls of All() or Apply(f) the consumer makes
MaxAttrs == 2       \* attributes of the node the attribute methods are tried on
MaxData == 3        \* characters of the node CleanData is tried on
MaxCleans == 2      \* calls of CleanData in a row

\* --------------------------------------------------------------- constants
nodeBufferSize == 20

Nil == 0

TextNode == 1
ElementNode == 3

\* The characters of the model's strings; blank is the cutset of CleanData.
blank == {" ", "\t", "\n", "\r"}

\* ------------------------------------------------------------------- trees
\* A tree is given by its parent vector pv: node 1 is the document root,
\* pv[i] < i is the parent of node i, and the children of a node are linked
\* in increasing order of their number.
ParentVectors(n) ==
    { pv \in [1..n -> 0..n] : /\ pv[1] = Nil
                              /\ \A i \in 2..n : pv[i] >= 1 /\ pv[i] < i }

SetMin(S) == CHOOSE x \in S : \A y \in S : x <= y
SetMax(S) == CHOOSE x \in S : \A y \in S : x >= y

ChildrenOf(pv, p) == { c \in DOMAIN pv : pv[c] = p }

FirstOrNil(S) == IF S = {} THEN Nil ELSE SetMin(S)
LastOrNil(S) == IF S = {} THEN Nil ELSE SetMax(S)

\* The strings of the model are sequences of characters.
Tag(i) == IF i % 2 = 0 THEN <<"a">> ELSE <<"p">>
Text(i) == IF i % 2 = 0 THEN <<" ", "\n">> ELSE <<" ", "b", "\t">>

\* node.Attrs: the elements with an even number carry one attribute
Attrs(i) == IF i % 2 = 0 THEN <<[Key |-> "href", Val |-> <<"x">>]>> ELSE <<>>

\* labelling 1: elements only; labelling 2: the leaves are text nodes, blank
\* ones and padded ones.
Labellings == {1, 2}

NodeOf(pv, lab, i) ==
    LET sibs == ChildrenOf(pv, pv[i])
        leaf == ChildrenOf(pv, i) = {}
        text == lab = 2 /\ leaf /\ i > 1
    IN [ Parent      |-> pv[i],
         FirstChild  |-> FirstOrNil(ChildrenOf(pv, i)),
         LastChild   |-> LastOrNil(ChildrenOf(pv, i)),
         PrevSibling |-> LastOrNil({ d \in sibs : d < i }),
         NextSibling |-> FirstOrNil({ d \in sibs : d > i }),
         Type        |-> IF text THEN TextNode ELSE ElementNode,
         Data        |-> IF text THEN Text(i) ELSE Tag(i),
         Attrs       |-> IF text THEN <<>> ELSE Attrs(i) ]

TreeOf(pv, lab) == [ i \in DOMAIN pv |-> NodeOf(pv, lab, i) ]

\* A root with nodeBufferSize + MaxLimit + 2 children: enough for the
\* producer to fill its buffer while nodes remain to be sent.
WideSize == nodeBufferSize + MaxLimit + 3
WideVector == [ i \in 1..WideSize |-> IF i = 1 THEN Nil ELSE 1 ]

\* ----------------------------------------------------------------- strings
RECURSIVE TrimLeft(_)
TrimLeft(s) ==
    IF s # <<>> /\ Head(s) \in blank THEN TrimLeft(Tail(s)) ELSE s

RECURSIVE TrimRight(_)
TrimRight(s) ==
    IF s # <<>> /\ s[Len(s)] \in blank
    THEN TrimRight(SubSeq(s, 1, Len(s) - 1)) ELSE s

\* mutant: one blank at most is cut from the front
TrimOnce(s) == IF s # <<>> /\ Head(s) \in blank THEN Tail(s) ELSE s

\* mutant: only the leading blanks are cut
TrimLeftOnly(s) == TrimLeft(s)

\* strings.Trim(s, blank)
Trim(s) == TrimRight(TrimLeft(s))

\* ------------------------------------------------------------------- nodes
IsBlankText(nd, n) == nd[n].Type = TextNode /\ Trim(nd[n].Data) = <<>>

IsTag(nd, n, name) == nd[n].Type = ElementNode /\ nd[n].Data = name

\* mutant: CleanData leaves the payload as it is
CleanNothing(nd, n) == nd

\* mutant: CleanData also cuts the node off its next sibling
CleanAndUnlink(nd, n) ==
    [nd EXCEPT ![n].Data = Trim(nd[n].Data), ![n].NextSibling = Nil]

\* CleanData writes the trimmed payload into the node and returns the node.
CleanData(nd, n) ==
    IF nd[n].Type = TextNode
    THEN [nd EXCEPT ![n].Data = Trim(nd[n].Data)]
    ELSE nd

predicateNotBlank(nd, n) == ~IsBlankText(nd, n)

\* The outcome of a call: a returned value, or a panic.
Returned(v) == [panic |-> FALSE, val |-> v]
Panicked == [panic |-> TRUE, val |-> <<>>]

\* for _, a := range node.Attrs { if a.Key == attrKey { return true } }
RECURSIVE HasAttr(_, _)
HasAttr(attrs, attrKey) ==
    IF attrs = <<>> THEN FALSE
    ELSE IF Head(attrs).Key = attrKey THEN TRUE
    ELSE HasAttr(Tail(attrs), attrKey)

\* mutant: Attr returns the value of the last attribute with the key
RECURSIVE AttrLast(_, _)
AttrLast(attrs, attrKey) ==
    IF attrs = <<>> THEN Panicked
    ELSE IF attrs[Len(attrs)].Key = attrKey THEN Returned(attrs[Len(attrs)].Val)
    ELSE AttrLast(SubSeq(attrs, 1, Len(attrs) - 1), attrKey)

\* for _, a := range node.Attrs { if a.Key == attrKey { return a.Val } }
\* panic("no such attribute ...")
RECURSIVE Attr(_, _)
Attr(attrs, attrKey) ==
    IF attrs = <<>> THEN Panicked
    ELSE IF Head(attrs).Key = attrKey THEN Returned(Head(attrs).Val)
    ELSE Attr(Tail(attrs), attrKey)

\* the same loop, ending in return defaultValue
RECURSIVE AttrOrDefault(_, _, _)
AttrOrDefault(attrs, attrKey, defaultValue) ==
    IF attrs = <<>> THEN Returned(defaultValue)
    ELSE IF Head(attrs).Key = attrKey THEN Returned(Head(attrs).Val)
    ELSE AttrOrDefault(Tail(attrs), attrKey, defaultValue)

\* strings.Contains(s, match)
Contains(s, match) ==
    \E i \in 1..(Len(s) - Len(match) + 1) :
        SubSeq(s, i, i + Len(match) - 1) = match

\* node.HasAttr(attrKey) && strings.Contains(node.Attr(attrKey), match)
AttrValueContains(nd, n, attrKey, match) ==
    /\ HasAttr(nd[n].Attrs, attrKey)
    /\ Contains(Attr(nd[n].Attrs, attrKey).val, match)

predicateAttrValueContains(nd, n, attrKey, match) ==
    AttrValueContains(nd, n, attrKey, match)

predicateIsTag(nd, n) == IsTag(nd, n, <<"a">>)

\* ------------------------------------------------------------------ stages
FilterStage(p) == [kind |-> "Filter", pred |-> p, max |-> 0]
MapStage == [kind |-> "Map", pred |-> "clean", max |-> 0]
LimitStage(m) == [kind |-> "Limit", pred |-> "none", max |-> m]

\* TreeIterator(recursive).Filter(predicateNotBlank).Map(clean)
ChildrenStages == <<FilterStage("NotBlank"), MapStage>>

Pipelines ==
    {<<>>, ChildrenStages, ChildrenStages \o <<FilterStage("IsTag")>>}
      \cup { <<LimitStage(m)>> : m \in 0..MaxLimit }
      \cup { ChildrenStages \o <<LimitStage(m)>> : m \in 0..MaxLimit }

WidePipelines == {<<>>, ChildrenStages, <<LimitStage(MaxLimit)>>}

\* mutant: a Filter stage whose predicate accepts every node
EvalTrue(p, nd, n) == TRUE

\* predicate(node) in Filter, for the predicates the package passes
Eval(p, nd, n) ==
    IF p = "NotBlank" THEN predicateNotBlank(nd, n)
    ELSE IF p = "IsHead" THEN IsTag(nd, n, <<"head">>)
    ELSE IF p = "Charset"
    THEN predicateAttrValueContains(nd, n, "content", <<"charset=">>)
    ELSE predicateIsTag(nd, n)


\* ------------------------------------------------------------------- state
VARIABLES
    nodes,       \* the tree: node number -> Node
    root,        \* the node TreeIterator is called on
    recursive,   \* TreeIterator's argument
    stages,      \* the stages chained on the TreeIterator, in order
    ppc,         \* producer goroutine: "loop", "send", "putback", "close", "done";
                 \* "new" before TreeIterator is called, "panic" if it panicked
    stack,       \* producer: the loop variable child of every active call
    out,         \* the producer's channel out (buffered, nodeBufferSize)
    outClosed,   \* close(out) has run
    exit,        \* tokens in every exit channel (buffered, 1), by channel
    st,          \* stage goroutines: [pc, node, count]
    cpc,         \* consumer: "idle", "Close", "First_recv", "First_Close";
                 \* "new" while it holds no iterator
    received,    \* nodes the consumer received from Nodes, in order
    eos,         \* the consumer received ok = false from Nodes
    closed,      \* field closed of the consumer's NodeIterator
    closeCalls,  \* calls of Close() made by the consumer
    firstCalls,  \* calls of First() made by the consumer
    firstResult, \* value returned by the last First()
    closedAt,    \* Len(received) when a Close() first returned, or NoClose
    drain,       \* All() and Apply(f): the last call, Len(received) when it was
                 \* made, the nodes it appended or passed to f, calls so far
    tokensSent,  \* sends on exit performed by Close(), whoever called it
    call,        \* the last call of a function that is not a stream operation
                 \* (a method of Node, WrapTree), with what it returned
    task,        \* concurrent variant: for every node iterateOnDescendants was
                 \* called on, its goroutine and channels [pc, child, out,
                 \* closed, exit, wg, cancelled]; WaitGroup variant: the
                 \* calls of GetMatchingDescendents
    sub,         \* concurrent variant: the goroutine spawned for a child, which
                 \* forwards the nodes of its sub-iteration [pc]; WaitGroup
                 \* variant: the goroutines spawned by the loops
    fwd          \* concurrent variant: the goroutine forward(exit, subexit)
                 \* started for a child [pc]

treeVars == <<nodes, root, recursive, stages>>
taskVars == <<task, sub, fwd>>
producerVars == <<ppc, stack, out, outClosed>>
consumerVars ==
    <<cpc, received, eos, closed, closeCalls, firstCalls, firstResult, closedAt,
      drain>>
vars == <<nodes, root, recursive, stages, ppc, stack, out, outClosed, exit, st,
          cpc, received, eos, closed, closeCalls, firstCalls, firstResult,
          closedAt, drain, tokensSent, call, task, sub, fwd>>

NoClose == -1
NoResult == -1

NumStages == Len(stages)
Consumer == NumStages + 1

\* ------------------------------------------------------------ construction
\* The state in which r.TreeIterator(rec) and the chained Filter/Map/Limit
\* calls sts are about to be made: no channel and no goroutine exists yet.
NewStream(nd, r, rec, sts) ==
    /\ nodes = nd
    /\ root = r
    /\ recursive = rec
    /\ stages = sts
    /\ ppc = "new"
    /\ stack = <<>>
    /\ out = <<>>
    /\ outClosed = FALSE
    /\ exit = [c \in 0..Len(sts) |-> 0]
    /\ st = [k \in 1..Len(sts) |-> [pc |-> "new", node |-> Nil, count |-> 0]]
    /\ cpc = "new"
    /\ received = <<>>
    /\ eos = FALSE
    /\ closed = FALSE
    /\ closeCalls = 0
    /\ firstCalls = 0
    /\ firstResult = NoResult
    /\ closedAt = NoClose
    /\ drain = [op |-> "none", from |-> 0, list |-> <<>>, calls |-> 0]
    /\ tokensSent = 0

\* iterateOnDescendants of the concurrent variant has not been called
NoTasks == task = <<>> /\ sub = <<>> /\ fwd = <<>>

\* ... and no other function of the package is being called
Called(nd, r, rec, sts) ==
    /\ NewStream(nd, r, rec, sts)
    /\ NoTasks
    /\ call = [fn |-> "none"]

InitSmall ==
    \E n \in 1..MaxNodes : \E pv \in ParentVectors(n) : \E lab \in Labellings :
    \E r \in 1..n : \E rec \in BOOLEAN : \E sts \in Pipelines :
        Called(TreeOf(pv, lab), r, rec, sts)

InitWide ==
    \E sts \in WidePipelines : Called(TreeOf(WideVector, 1), 1, TRUE, sts)

\* TreeIterator, Children or Descendants called on a nil node
InitNil ==
    \E rec \in BOOLEAN : \E sts \in {<<>>, ChildrenStages} :
        Called(TreeOf([i \in 1..1 |-> Nil], 1), Nil, rec, sts)

Init == InitSmall \/ InitWide \/ InitNil

\* mutant: TreeIterator without its nil check
NeverNil(n) == FALSE

\* if node == nil { panic(...) }
IsNilNode(n) == n = Nil

\* mutant: the walk starts at the node itself
FirstChildSelf(n) == n

\* node.FirstChild as the goroutine reads it (a nil node has nothing to walk)
FirstChildOf(n) == IF n = Nil THEN Nil ELSE nodes[n].FirstChild

\* node.TreeIterator(recursive) followed by the chained Filter/Map/Limit
\* calls: it panics on a nil node before anything is made; otherwise the
\* channels are made, every goroutine is started and the caller holds the
\* iterator.
TreeIteratorCall ==
    /\ ppc = "new"
    /\ IF IsNilNode(root)
       THEN /\ ppc' = "panic"
            /\ UNCHANGED <<stack, st, cpc>>
       ELSE /\ ppc' = "loop"
            /\ stack' = <<FirstChildOf(root)>>
            /\ st' = [k \in 1..NumStages |-> [st[k] EXCEPT !.pc = "recv"]]
            /\ cpc' = "idle"
    /\ UNCHANGED drain
    /\ UNCHANGED <<taskVars, call, treeVars, out, outClosed, exit, received, eos, closed,
                   closeCalls, firstCalls, firstResult, closedAt, tokensSent>>

\* ----------------------------------------------------------- exit channels
\* exit := make(chan interface{}, 1) in TreeIterator
TreeExit == 0

\* mutant: a derived iterator gets an exit channel of its own
DerivedExitFresh(k, up) == k

\* Filter, Map and Limit build NodeIterator{c, i.exit, false}: the iterator
\* of stage k carries the exit channel of the iterator it was derived from.
DerivedExit(k, up) == up

\* The exit channel of the iterator at position k (0: the TreeIterator's).
RECURSIVE ExitChan(_)
ExitChan(k) == IF k = 0 THEN TreeExit ELSE DerivedExit(k, ExitChan(k - 1))

\* ---------------------------------------------------------------- producer
\* mutant: the select never takes case <-exit
ExitNeverReady(e) == FALSE

\* case <-exit of the select is ready
ExitReady(e) == e > 0

\* a send on exit can proceed (capacity 1)
ExitHasRoom(e) == e < 1

\* mutant: out takes any number of nodes
OutAlwaysRoom(q) == TRUE

\* a send on out can proceed
OutHasRoom(q) == Len(q) < nodeBufferSize

Top(s) == s[Len(s)]

\* A call of recIterateOnDescendants returns: its caller's loop moves on to
\* child.NextSibling; the outermost call returns to the goroutine.
Return(s) ==
    IF Len(s) = 1 THEN <<>>
    ELSE LET rest == SubSeq(s, 1, Len(s) - 1)
         IN [rest EXCEPT ![Len(rest)] = nodes[Top(rest)].NextSibling]

\* mutant: every call of recIterateOnDescendants closes out when it returns
PcAfterReturnClose(s) == "close"

\* return in recIterateOnDescendants: back in the caller's loop, or, from the
\* outermost call, at close(out)
PcAfterReturn(s) == IF Len(s) = 1 THEN "close" ELSE "loop"

\* mutant: the walk never enters a child
DescendNever(s, rec) == [s EXCEPT ![Len(s)] = nodes[Top(s)].NextSibling]

\* mutant: the walk enters every child, whatever recursive says
DescendAlways(s, rec) == Append(s, nodes[Top(s)].FirstChild)

\* mutant: the walk enters only the children that are <a> elements
DescendIfMatching(s, rec) ==
    IF rec /\ predicateIsTag(nodes, Top(s))
    THEN Append(s, nodes[Top(s)].FirstChild)
    ELSE [s EXCEPT ![Len(s)] = nodes[Top(s)].NextSibling]

\* After out <- child: the recursive call on child, or the next sibling.
Descend(s, rec) ==
    IF rec THEN Append(s, nodes[Top(s)].FirstChild)
    ELSE [s EXCEPT ![Len(s)] = nodes[Top(s)].NextSibling]

\* child == nil: the for loop ends and the call returns
ProducerReturn ==
    /\ ppc = "loop"
    /\ Top(stack) = Nil
    /\ stack' = Return(stack)
    /\ ppc' = PcAfterReturn(stack)
    /\ UNCHANGED <<taskVars, call, treeVars, out, outClosed, exit, st, consumerVars, tokensSent>>

\* mutant: the select looks at the token and leaves it in the channel
ExitAfterPeek(e) == e

\* <-exit takes one token out of the channel
ExitAfterRecv(e) == e - 1

\* select, case <-exit
ProducerSelectExit ==
    /\ ppc = "loop"
    /\ Top(stack) # Nil
    /\ ExitReady(exit[TreeExit])
    /\ exit' = [exit EXCEPT ![TreeExit] = ExitAfterRecv(@)]
    /\ ppc' = "putback"
    /\ UNCHANGED <<taskVars, call, treeVars, stack, out, outClosed, st, consumerVars, tokensSent>>

\* select, default
ProducerSelectDefault ==
    /\ ppc = "loop"
    /\ Top(stack) # Nil
    /\ ~ExitReady(exit[TreeExit])
    /\ ppc' = "send"
    /\ UNCHANGED <<taskVars, call, treeVars, stack, out, outClosed, exit, st, consumerVars,
                   tokensSent>>

\* exit <- true; return
ProducerPutback ==
    /\ ppc = "putback"
    /\ ExitHasRoom(exit[TreeExit])
    /\ exit' = [exit EXCEPT ![TreeExit] = @ + 1]
    /\ stack' = Return(stack)
    /\ ppc' = PcAfterReturn(stack)
    /\ UNCHANGED <<taskVars, call, treeVars, out, outClosed, st, consumerVars, tokensSent>>

\* out <- child, then the recursive call or the next iteration
ProducerSend ==
    /\ ppc = "send"
    /\ OutHasRoom(out)
    /\ out' = Append(out, Top(stack))
    /\ stack' = Descend(stack, recursive)
    /\ ppc' = "loop"
    /\ UNCHANGED <<taskVars, call, treeVars, outClosed, exit, st, consumerVars, tokensSent>>

\* After close(out) the goroutine ends: close(out) follows the return of the
\* outermost call, when no call is left on the stack.
PcAfterClose(s) == IF s = <<>> THEN "done" ELSE "loop"

\* close(out)
ProducerClose ==
    /\ ppc = "close"
    /\ outClosed' = TRUE
    /\ ppc' = PcAfterClose(stack)
    /\ UNCHANGED <<taskVars, call, treeVars, stack, out, exit, st, consumerVars, tokensSent>>

ProducerNext ==
    \/ TreeIteratorCall
    \/ ProducerReturn
    \/ ProducerSelectExit
    \/ ProducerSelectDefault
    \/ ProducerPutback
    \/ ProducerSend
    \/ ProducerClose

\* ------------------------------------------------------------------ stages
\* Position k receives from the channel Nodes of position k - 1: stage 1
\* reads the producer's buffered channel out, stage k > 1 and the consumer
\* read the unbuffered channel c of the stage before them.
UpAvail(k) == IF k = 1 THEN out # <<>> ELSE st[k - 1].pc = "send"

\* a receive yields ok = false: the channel is closed and holds nothing
UpClosed(k) == IF k = 1 THEN out = <<>> /\ outClosed ELSE st[k - 1].pc = "done"

\* mutant: a receive from the buffered channel takes the newest node
UpNodeNewest(k) == IF k = 1 THEN out[Len(out)] ELSE st[k - 1].node

\* the node a receive yields: channels are first in, first out
UpNode(k) == IF k = 1 THEN Head(out) ELSE st[k - 1].node

\* mutant: Limit stops as soon as it has passed max nodes
LimitReachedAtMax(count, max) == count >= max

\* Limit: count++ ; if count > max
LimitReached(count, max) == count > max

\* Stage k after its send c <- node completed.
AfterSent(k) ==
    IF stages[k].kind = "Limit"
    THEN [pc    |-> IF LimitReached(st[k].count + 1, stages[k].max)
                    THEN "exit_send" ELSE "recv",
          node  |-> Nil,
          count |-> st[k].count + 1]
    ELSE [pc |-> "recv", node |-> Nil, count |-> st[k].count]

\* The channels after position k received one node.
OutAfterRecv(k) == IF k = 1 THEN Tail(out) ELSE out
StAfterRecv(k) == IF k = 1 THEN st ELSE [st EXCEPT ![k - 1] = AfterSent(k - 1)]

Holding(k, x) == [pc |-> "send", node |-> x, count |-> st[k].count]

\* Filter: node received; if predicate(node) { c <- node }
FilterRecv(k) ==
    /\ stages[k].kind = "Filter"
    /\ st[k].pc = "recv"
    /\ UpAvail(k)
    /\ out' = OutAfterRecv(k)
    /\ st' = IF Eval(stages[k].pred, nodes, UpNode(k))
             THEN [StAfterRecv(k) EXCEPT ![k] = Holding(k, UpNode(k))]
             ELSE StAfterRecv(k)
    /\ UNCHANGED <<taskVars, call, treeVars, ppc, stack, outClosed, exit, consumerVars, tokensSent>>

\* Map: node received; c <- mapper(node), the mapper being clean
MapRecv(k) ==
    /\ stages[k].kind = "Map"
    /\ st[k].pc = "recv"
    /\ UpAvail(k)
    /\ out' = OutAfterRecv(k)
    /\ nodes' = CleanData(nodes, UpNode(k))
    /\ st' = [StAfterRecv(k) EXCEPT ![k] = Holding(k, UpNode(k))]
    /\ UNCHANGED <<taskVars, call, root, recursive, stages, ppc, stack, outClosed, exit,
                   consumerVars, tokensSent>>

\* Limit: node received; c <- node
LimitRecv(k) ==
    /\ stages[k].kind = "Limit"
    /\ st[k].pc = "recv"
    /\ UpAvail(k)
    /\ out' = OutAfterRecv(k)
    /\ st' = [StAfterRecv(k) EXCEPT ![k] = Holding(k, UpNode(k))]
    /\ UNCHANGED <<taskVars, call, treeVars, ppc, stack, outClosed, exit, consumerVars, tokensSent>>

\* Limit: i.Close() on the captured iterator i, whose field closed is false
\* (every NodeIterator is built with closed = false and Close() has a value
\* receiver), so the send on exit is always attempted; then break.
LimitClose(k) ==
    /\ st[k].pc = "exit_send"
    /\ ExitHasRoom(exit[ExitChan(k - 1)])
    /\ exit' = [exit EXCEPT ![ExitChan(k - 1)] = @ + 1]
    /\ tokensSent' = tokensSent + 1
    /\ st' = [st EXCEPT ![k].pc = "close"]
    /\ UNCHANGED <<taskVars, call, treeVars, producerVars, consumerVars>>

\* for node := range i.Nodes ends: the input is closed and drained
StageEnd(k) ==
    /\ st[k].pc = "recv"
    /\ UpClosed(k)
    /\ st' = [st EXCEPT ![k].pc = "close"]
    /\ UNCHANGED <<taskVars, call, treeVars, producerVars, exit, consumerVars, tokensSent>>

\* close(c)
StageClose(k) ==
    /\ st[k].pc = "close"
    /\ st' = [st EXCEPT ![k].pc = "done"]
    /\ UNCHANGED <<taskVars, call, treeVars, producerVars, exit, consumerVars, tokensSent>>

StageNext ==
    \E k \in 1..NumStages :
        \/ FilterRecv(k)
        \/ MapRecv(k)
        \/ LimitRecv(k)
        \/ LimitClose(k)
        \/ StageEnd(k)
        \/ StageClose(k)

\* ---------------------------------------------------------------- consumer
\* Close() has a value receiver: i.closed = true is written to the callee's
\* copy of the iterator, the caller's field keeps its value.
CloseFlagAfter(flag) == flag

\* node, ok := <-it.Nodes with ok = true
ConsumerRecvNode ==
    /\ cpc = "idle"
    /\ UpAvail(Consumer)
    /\ received' = Append(received, UpNode(Consumer))
    /\ out' = OutAfterRecv(Consumer)
    /\ st' = StAfterRecv(Consumer)
    /\ UNCHANGED drain
    /\ UNCHANGED <<taskVars, call, treeVars, ppc, stack, outClosed, exit, cpc, eos, closed,
                   closeCalls, firstCalls, firstResult, closedAt, tokensSent>>

\* node, ok := <-it.Nodes with ok = false
ConsumerRecvEnd ==
    /\ cpc = "idle"
    /\ UpClosed(Consumer)
    /\ eos' = TRUE
    /\ UNCHANGED drain
    /\ UNCHANGED <<taskVars, call, treeVars, producerVars, exit, st, cpc, received, closed,
                   closeCalls, firstCalls, firstResult, closedAt, tokensSent>>

\* it.Close() is called: if !i.closed
ConsumerCloseCall ==
    /\ cpc = "idle"
    /\ closeCalls < MaxCloses
    /\ closeCalls' = closeCalls + 1
    /\ cpc' = IF closed THEN "idle" ELSE "Close"
    /\ UNCHANGED drain
    /\ UNCHANGED <<taskVars, call, treeVars, producerVars, exit, st, received, eos, closed,
                   firstCalls, firstResult, closedAt, tokensSent>>

\* i.exit <- true; i.closed = true; return (from Close, and from First)
ConsumerCloseSend ==
    /\ cpc \in {"Close", "First_Close"}
    /\ ExitHasRoom(exit[ExitChan(NumStages)])
    /\ exit' = [exit EXCEPT ![ExitChan(NumStages)] = @ + 1]
    /\ tokensSent' = tokensSent + 1
    /\ closed' = CloseFlagAfter(closed)
    /\ closedAt' = IF closedAt = NoClose THEN Len(received) ELSE closedAt
    /\ cpc' = "idle"
    /\ UNCHANGED drain
    /\ UNCHANGED <<taskVars, call, treeVars, producerVars, st, received, eos, closeCalls,
                   firstCalls, firstResult>>

\* it.First() is called
ConsumerFirstCall ==
    /\ cpc = "idle"
    /\ firstCalls < MaxFirsts
    /\ firstCalls' = firstCalls + 1
    /\ cpc' = "First_recv"
    /\ UNCHANGED drain
    /\ UNCHANGED <<taskVars, call, treeVars, producerVars, exit, st, received, eos, closed,
                   closeCalls, firstResult, closedAt, tokensSent>>

\* mutant: First returns nil whatever it received
FirstReturnNil(node) == Nil

\* First: return node
FirstReturn(node) == node

\* First: node, ok := <-i.Nodes with ok = true; i.Close()
ConsumerFirstRecv ==
    /\ cpc = "First_recv"
    /\ UpAvail(Consumer)
    /\ received' = Append(received, UpNode(Consumer))
    /\ firstResult' = FirstReturn(UpNode(Consumer))
    /\ out' = OutAfterRecv(Consumer)
    /\ st' = StAfterRecv(Consumer)
    /\ cpc' = IF closed THEN "idle" ELSE "First_Close"
    /\ UNCHANGED drain
    /\ UNCHANGED <<taskVars, call, treeVars, ppc, stack, outClosed, exit, eos, closed,
                   closeCalls, firstCalls, closedAt, tokensSent>>

\* First: ok = false; return nil
ConsumerFirstEnd ==
    /\ cpc = "First_recv"
    /\ UpClosed(Consumer)
    /\ firstResult' = Nil
    /\ eos' = TRUE
    /\ cpc' = "idle"
    /\ UNCHANGED drain
    /\ UNCHANGED <<taskVars, call, treeVars, producerVars, exit, st, received, closed,
                   closeCalls, firstCalls, closedAt, tokensSent>>

\* mutant: All() keeps only the last node
ListReplace(list, node) == <<node>>

\* list = append(list, node) in All; the calls f(node) made by Apply
ListAppend(list, node) == Append(list, node)

\* it.All() or it.Apply(f) is called
ConsumerDrainCall(op) ==
    /\ cpc = "idle"
    /\ drain.calls < MaxDrains
    /\ drain' = [op |-> op, from |-> Len(received), list |-> <<>>,
                 calls |-> drain.calls + 1]
    /\ cpc' = op
    /\ UNCHANGED <<taskVars, call, treeVars, producerVars, exit, st, received, eos, closed,
                   closeCalls, firstCalls, firstResult, closedAt, tokensSent>>

\* for node := range i.Nodes: one iteration
ConsumerDrainRecv ==
    /\ cpc \in {"All", "Apply"}
    /\ UpAvail(Consumer)
    /\ received' = Append(received, UpNode(Consumer))
    /\ drain' = [drain EXCEPT !.list = ListAppend(@, UpNode(Consumer))]
    /\ out' = OutAfterRecv(Consumer)
    /\ st' = StAfterRecv(Consumer)
    /\ UNCHANGED <<taskVars, call, treeVars, ppc, stack, outClosed, exit, cpc, eos, closed,
                   closeCalls, firstCalls, firstResult, closedAt, tokensSent>>

\* for node := range i.Nodes ends; All returns list, Apply returns
ConsumerDrainEnd ==
    /\ cpc \in {"All", "Apply"}
    /\ UpClosed(Consumer)
    /\ eos' = TRUE
    /\ cpc' = "idle"
    /\ UNCHANGED <<taskVars, call, treeVars, producerVars, exit, st, received, closed,
                   closeCalls, firstCalls, firstResult, closedAt, drain,
                   tokensSent>>

ConsumerNext ==
    \/ ConsumerRecvNode
    \/ ConsumerRecvEnd
    \/ ConsumerCloseCall
    \/ ConsumerCloseSend
    \/ ConsumerFirstCall
    \/ ConsumerFirstRecv
    \/ ConsumerFirstEnd

\* the consumer's calls of All() and Apply(f)
DrainNext ==
    \/ ConsumerDrainCall("All")
    \/ ConsumerDrainCall("Apply")
    \/ ConsumerDrainRecv
    \/ ConsumerDrainEnd

\* ----------------------------------------------------------- specification
\* the steps of the background goroutines
GoroutineNext == ProducerNext \/ StageNext

Next == ProducerNext \/ StageNext \/ ConsumerNext

Spec == Init /\ [][Next]_vars

\* The same streams over the small trees, with a consumer that also calls
\* All() and Apply(f).
NextDrain == ProducerNext \/ StageNext \/ ConsumerNext \/ DrainNext

SpecDrain == InitSmall /\ [][NextDrain]_vars

TypeOK ==
    /\ ppc \in {"new", "panic", "loop", "send", "putback", "close", "done"}
    /\ \A c \in DOMAIN exit : exit[c] \in 0..1
    /\ Len(out) <= nodeBufferSize
    /\ cpc \in {"new", "idle", "Close", "First_recv", "First_Close", "All", "Apply"}

\* ------------------------------------------------- what a stream delivers
\* The sequential depth-first walk of recIterateOnDescendants, as a function:
\* child, then (if recursive) the walk below child, then the next sibling.
RECURSIVE Walk(_, _)
Walk(child, rec) ==
    IF child = Nil THEN <<>>
    ELSE <<child>> \o (IF rec THEN Walk(nodes[child].FirstChild, rec) ELSE <<>>)
                   \o Walk(nodes[child].NextSibling, rec)

Prefix(s, n) == SubSeq(s, 1, IF n < Len(s) THEN n ELSE Len(s))

\* What one stage passes on of a fully drained input.
StageOutput(stage, s) ==
    IF stage.kind = "Filter"
    THEN LET Keep(n) == Eval(stage.pred, nodes, n) IN SelectSeq(s, Keep)
    ELSE IF stage.kind = "Limit" THEN Prefix(s, stage.max + 1)
    ELSE s

RECURSIVE StreamOutput(_, _)
StreamOutput(sts, rec) ==
    IF sts = <<>> THEN Walk(nodes[root].FirstChild, rec)
    ELSE StageOutput(sts[Len(sts)], StreamOutput(SubSeq(sts, 1, Len(sts) - 1), rec))

AllGoroutinesDone ==
    /\ ppc = "done"
    /\ \A k \in 1..NumStages : st[k].pc = "done"

\* The consumer only received: it called neither Close() nor First().
OnlyReceived == closeCalls = 0 /\ firstCalls = 0 /\ drain.calls = 0

\* a is a proper ancestor of n
RECURSIVE IsAncestor(_, _)
IsAncestor(a, n) ==
    /\ nodes[n].Parent # Nil
    /\ (nodes[n].Parent = a \/ IsAncestor(a, nodes[n].Parent))

InSubtree(a, n) == n = a \/ IsAncestor(a, n)

\* b comes after a in a's sibling chain
RECURSIVE IsLaterSibling(_, _)
IsLaterSibling(a, b) ==
    /\ nodes[a].NextSibling # Nil
    /\ (nodes[a].NextSibling = b \/ IsLaterSibling(nodes[a].NextSibling, b))

Range(s) == { s[i] : i \in DOMAIN s }

\* nodes emitted by the walk and not yet received by the consumer or dropped
InFlight ==
    Len(out) + (IF ppc = "send" THEN 1 ELSE 0)
             + Cardinality({ k \in 1..NumStages : st[k].pc = "send" })

\* ------------------------------------------------------------------ claims

\* C1: after the consumer read k < N elements, called Close() once and stopped
\* reading, every goroutine of the stream terminates: once no goroutine can
\* take a step any more, the producer and every stage have finished.
C1_CloseTerminatesAll ==
    ( /\ closeCalls = 1 /\ firstCalls = 0 /\ cpc = "idle"
      /\ closedAt = Len(received)
      /\ closedAt < Len(StreamOutput(stages, recursive))
      /\ ~ENABLED GoroutineNext )
    => AllGoroutinesDone

\* C2: Close() is idempotent: a second Close() returns at once; it does not
\* reach the send on the exit channel, where it would block or put a second
\* token.
C2_CloseIdempotent == ~(closeCalls >= 2 /\ cpc = "Close")

\* C3: Limit(n) on a stream of more than n elements delivers exactly the
\* first n of them and closes its output.
C3_LimitDeliversExactlyN ==
    ( /\ NumStages >= 1 /\ stages[NumStages].kind = "Limit"
      /\ OnlyReceived /\ eos
      /\ Len(StreamOutput(SubSeq(stages, 1, NumStages - 1), recursive))
           > stages[NumStages].max )
    => received = Prefix(StreamOutput(SubSeq(stages, 1, NumStages - 1), recursive),
                         stages[NumStages].max)

\* C4 as claimed: once Close() has returned, no receive on Nodes yields a node.
C4_NoNodeAfterClose == closedAt # NoClose => Len(received) = closedAt

\* C4 as amended: once Close() has returned, no new node enters the stream: a
\* node received afterwards was already in the producer's buffer, held by a
\* stage or being sent by the producer (the nodes received plus the nodes in
\* flight never grow in number).
C4_OnlyInFlightAfterClose ==
    [][closedAt # NoClose => Len(received') + InFlight' <= Len(received) + InFlight]_vars

C4_Witness == closedAt # NoClose /\ Len(received) > closedAt /\ ppc = "done"

\* C5: a fully drained recursive traversal of r delivers every proper
\* descendant of r exactly once, a node before its descendants, and the whole
\* subtree of a node before its later siblings.
C5_DescendantsPreOrder ==
    (stages = <<>> /\ recursive /\ eos /\ tokensSent = 0)
    => /\ Range(received) = { n \in DOMAIN nodes : IsAncestor(root, n) }
       /\ \A i, j \in DOMAIN received :
            /\ i # j => received[i] # received[j]
            /\ IsAncestor(received[i], received[j]) => i < j
            /\ (\E a \in Range(received) :
                  InSubtree(a, received[i]) /\ IsLaterSibling(a, received[j]))
               => i < j

C5_Witness ==
    /\ stages = <<>> /\ recursive /\ eos /\ tokensSent = 0
    /\ \E i, j \in DOMAIN received :
         /\ nodes[received[i]].Parent # root
         /\ IsLaterSibling(nodes[received[i]].Parent, received[j])

\* C6: what Children(r) delivers is what Descendants(r) delivers restricted
\* to the direct children of r, in the same order.
C6_ChildrenOfDescendants ==
    (stages = ChildrenStages /\ eos /\ tokensSent = 0)
    => LET IsChild(n) == nodes[n].Parent = root
           descendants == StreamOutput(stages, TRUE)
       IN IF recursive THEN received = descendants
          ELSE received = SelectSeq(descendants, IsChild)

C6_Witness ==
    /\ stages = ChildrenStages /\ eos /\ tokensSent = 0 /\ ~recursive
    /\ received # <<>>
    /\ Len(received) < Cardinality({ n \in DOMAIN nodes : nodes[n].Parent = root })
    /\ Len(received) < Len(StreamOutput(stages, TRUE))

\* C7: a producer waiting to send into a full buffer is released by the token
\* Close() put on the exit channel: it has a step to take.
C7_FullBufferReleasedByClose ==
    (ppc = "send" /\ ~OutHasRoom(out) /\ closedAt # NoClose /\ exit[TreeExit] > 0)
    => ENABLED ProducerNext

\* C8: First() always returns: while a call of First() on a stream that was
\* never closed is in progress, the system is not stuck.
C8_FirstReturns ==
    (closeCalls = 0 /\ cpc \in {"First_recv", "First_Close"}) => ENABLED Next

\* C9: over the lifetime of a stream at most one token is sent on its exit
\* channel by Close(), whether called by the consumer, by First() or by Limit.
C9_AtMostOneToken == tokensSent <= 1

\* C10: after a Limit stage issued its cancellation the producer terminates:
\* once no goroutine can take a step any more, the producer has closed out.
C10_LimitStopsProducer ==
    ( /\ OnlyReceived
      /\ \E k \in 1..NumStages :
            stages[k].kind = "Limit" /\ st[k].pc = "done" /\ st[k].count > stages[k].max
      /\ ~ENABLED GoroutineNext )
    => ppc = "done"

\* C11: every derived iterator carries the exit channel of its TreeIterator,
\* so once Close() on the outermost derived iterator has returned, the
\* producer's next cancellation check (the select, reached with a child to
\* emit) finds the token and takes case <-exit: it emits no further node.
C11_DerivedCloseStopsTraversal ==
    [][(NumStages >= 1 /\ closedAt # NoClose /\ ppc = "loop" /\ Top(stack) # Nil)
       => /\ ExitChan(NumStages) = TreeExit
          /\ ExitReady(exit[TreeExit])
          /\ ppc' \in {"loop", "putback"}
          /\ Len(out') <= Len(out)]_vars

C11_Witness ==
    /\ NumStages >= 1 /\ \A k \in 1..NumStages : stages[k].kind # "Limit"
    /\ firstCalls = 0 /\ closeCalls = 1 /\ closedAt # NoClose
    /\ ppc = "putback" /\ Len(stack) >= 2

\* C12: a consumer that reads the stream to the end without calling Close()
\* leaves no goroutine behind: when it has seen end-of-sequence and no
\* goroutine can take a step any more, the producer has closed out and every
\* stage has closed its output.
C12_DrainedStreamLeavesNothing ==
    (OnlyReceived /\ eos /\ ~ENABLED GoroutineNext)
    => (outClosed /\ AllGoroutinesDone)

\* C13: on a stream that was never closed (by Close() or by an earlier
\* First()), First() receives once from Nodes.
\* If that yields a node, it is the next node of the sequence the stream
\* delivers, it is the only element First() takes, it is the value First()
\* returns, and First() goes on to Close(). If the stream has nothing (more)
\* to deliver, First() returns nil at once, having received nothing and sent
\* no token.
C13_FirstNodeOrNil ==
    [][(closeCalls = 0 /\ closedAt = NoClose
          /\ cpc = "First_recv" /\ cpc' # "First_recv")
       => LET full == StreamOutput(stages, recursive)
          IN IF Len(received) < Len(full)
             THEN /\ firstResult' = full[Len(received) + 1]
                  /\ received' = Append(received, firstResult')
                  /\ cpc' = "First_Close"
             ELSE /\ firstResult' = Nil
                  /\ received' = received
                  /\ cpc' = "idle"
                  /\ tokensSent' = tokensSent
                  /\ exit' = exit]_vars

\* DescendantsByTag for a tag absent from a tree that has descendants:
\* First() returned nil
C13_Witness ==
    /\ closeCalls = 0 /\ firstCalls = 1 /\ cpc = "idle"
    /\ firstResult = Nil /\ received = <<>> /\ tokensSent = 0
    /\ recursive /\ Len(stages) = 3 /\ stages[3] = FilterStage("IsTag")
    /\ nodes[root].FirstChild # Nil

\* C14: when the producer has exhausted the sequence and the consumer has
\* seen its end, the iterator's closed flag is true, and no Close() gets past
\* the test of that flag to the send on exit.
C14_ExhaustionMarksClosed ==
    (eos /\ ppc = "done" /\ firstCalls = 0 /\ closedAt = NoClose)
    => (closed /\ cpc # "Close")

\* C15: for a TreeIterator with any chain of Filter and Map stages, under
\* every interleaving of the producer, the stages and a consumer that only
\* receives, what the consumer has received is at every moment a prefix of
\* the sequence the sequential depth-first walk gives (passed through the
\* stages), and the whole of it once the consumer has seen end-of-sequence.
C15_SequentialOrderUnderAnySchedule ==
    ( /\ ppc \notin {"new", "panic"}
      /\ \A k \in 1..NumStages : stages[k].kind # "Limit"
      /\ closeCalls = 0 /\ firstCalls = 0 )
    => LET full == StreamOutput(stages, recursive)
       IN /\ received = Prefix(full, Len(received))
          /\ eos => received = full

C15_Witness ==
    /\ NumStages = 3 /\ \A k \in 1..NumStages : stages[k].kind # "Limit"
    /\ closeCalls = 0 /\ firstCalls = 0 /\ recursive /\ eos
    /\ Len(received) >= 2
    /\ Len(received) < Len(Walk(nodes[root].FirstChild, recursive))

\* C16: a stream ending in Filter(p), drained by a consumer that only
\* receives, delivers exactly the elements of the stage's input for which p
\* is true, each once and in the input's order; the stage closes its output
\* only when its input is closed and drained, and has closed it when the
\* consumer sees end-of-sequence.
C16_FilterKeepsMatching ==
    ( /\ ppc \notin {"new", "panic"}
      /\ NumStages >= 1 /\ stages[NumStages].kind = "Filter"
      /\ closeCalls = 0 /\ firstCalls = 0 )
    => LET input == StreamOutput(SubSeq(stages, 1, NumStages - 1), recursive)
           p(n) == IF stages[NumStages].pred = "IsTag"
                   THEN nodes[n].Type = ElementNode /\ nodes[n].Data = <<"a">>
                   ELSE ~(nodes[n].Type = TextNode /\ Trim(nodes[n].Data) = <<>>)
       IN /\ st[NumStages].pc \in {"close", "done"} => UpClosed(NumStages)
          /\ eos => /\ received = SelectSeq(input, p)
                    /\ st[NumStages].pc = "done"

C16_Witness ==
    /\ NumStages >= 1 /\ stages[NumStages].kind = "Filter"
    /\ closeCalls = 0 /\ firstCalls = 0 /\ eos
    /\ received # <<>>
    /\ Len(received)
         < Len(StreamOutput(SubSeq(stages, 1, NumStages - 1), recursive))

\* C17: a stream ending in Map(clean), drained by a consumer that only
\* receives, delivers one output per element of the stage's input, in the
\* input's order, and each output is clean(x): the node x with its payload
\* trimmed if it is a text node, unchanged otherwise. The stage closes its
\* output only when its input is closed and drained, and has closed it when
\* the consumer sees end-of-sequence.
C17_MapOneToOne ==
    ( /\ ppc \notin {"new", "panic"}
      /\ NumStages >= 1 /\ stages[NumStages].kind = "Map"
      /\ closeCalls = 0 /\ firstCalls = 0 )
    => LET input == StreamOutput(SubSeq(stages, 1, NumStages - 1), recursive)
       IN /\ received = Prefix(input, Len(received))
          /\ \A i \in DOMAIN received :
                nodes[received[i]].Data =
                    IF nodes[received[i]].Type = TextNode
                    THEN Trim(Text(received[i])) ELSE Tag(received[i])
          /\ st[NumStages].pc \in {"close", "done"} => UpClosed(NumStages)
          /\ eos => /\ Len(received) = Len(input)
                    /\ st[NumStages].pc = "done"

C17_Witness ==
    /\ NumStages >= 1 /\ stages[NumStages].kind = "Map"
    /\ closeCalls = 0 /\ firstCalls = 0 /\ eos
    /\ Len(received) >= 2
    /\ \E i \in DOMAIN received :
         /\ nodes[received[i]].Type = TextNode
         /\ Text(received[i]) # Trim(Text(received[i]))

\* C18: All() collects, and Apply(f) passes to f, exactly the nodes received
\* from the stream since the call, one entry per node and in the order of
\* delivery; the call returns only when the stream is exhausted, it is never
\* stuck on a stream nobody closed, and it sends no token on exit: on a
\* stream used with nothing but All() or Apply(f) the result is the whole
\* sequence the stream delivers and the only tokens are those of Limit stages.
C18_AllAndApplyDrain ==
    drain.op # "none"
    => /\ drain.list = SubSeq(received, drain.from + 1, Len(received))
       /\ cpc \notin {"All", "Apply"} => eos
       /\ (closeCalls = 0 /\ firstCalls = 0)
          => /\ closedAt = NoClose
             /\ tokensSent <= Cardinality({ k \in 1..NumStages :
                                              stages[k].kind = "Limit" })
             /\ cpc \in {"All", "Apply"} => ENABLED NextDrain
             /\ cpc = "idle" => received = StreamOutput(stages, recursive)

C18_Witness ==
    /\ drain.op = "All" /\ cpc = "idle" /\ closeCalls = 0 /\ firstCalls = 0
    /\ drain.from = 0 /\ Len(drain.list) >= 3 /\ NumStages = 2

\* C19: on an exhausted stream (the producer has finished, no node is left
\* in a channel or in a stage, no goroutine has a step to take) a receive on
\* Nodes returns at once with ok = false; and once a receive has returned
\* ok = false, every later one does.
C19_ExhaustedReceiveReturns ==
    /\ (ppc = "done" /\ InFlight = 0 /\ cpc = "idle" /\ ~ENABLED GoroutineNext)
       => ENABLED ConsumerRecvEnd
    /\ (eos /\ cpc = "idle") => (~UpAvail(Consumer) /\ ENABLED ConsumerRecvEnd)

\* C20: TreeIterator on a nil node (alone or under Children/Descendants)
\* panics before anything is made: the call is either still to be made or has
\* panicked, no channel holds or has held anything, no goroutine, producer
\* or stage, was started, and the caller holds no iterator.
C20_NilNodePanicsFirst ==
    root = Nil
    => /\ ppc \in {"new", "panic"}
       /\ stack = <<>> /\ out = <<>> /\ ~outClosed
       /\ \A c \in DOMAIN exit : exit[c] = 0
       /\ \A k \in 1..NumStages : st[k].pc = "new"
       /\ cpc = "new" /\ received = <<>> /\ ~eos /\ tokensSent = 0
       /\ ppc = "panic" => ~ENABLED Next

C20_Witness == root = Nil /\ ppc = "panic" /\ stages = ChildrenStages

\* C21: the nodes emitted by the walk and not yet received by the consumer
\* are bounded whatever the size of the tree: at most nodeBufferSize of them
\* are in the producer's buffer and one is held by each stage, to which the
\* node the producer is trying to send is added.
C21_InFlightBounded ==
    /\ Len(out) <= nodeBufferSize
    /\ Cardinality({ k \in 1..NumStages : st[k].pc = "send" }) <= NumStages
    /\ InFlight <= nodeBufferSize + NumStages + 1

\* the bound is met on a tree that has more nodes to give
C21_Witness ==
    /\ NumStages >= 1 /\ ppc = "send"
    /\ InFlight = nodeBufferSize + NumStages + 1
    /\ nodes[Top(stack)].NextSibling # Nil

\* C22: no step of the traversal or of a stage writes a link (Parent,
\* FirstChild, LastChild, PrevSibling, NextSibling), a Type or an attribute
\* list of any node; the only write is to Data of a text node, made by the
\* clean stage for the node it is receiving, and it stores the trimmed data.
C22_TopologyUnchanged ==
    [][nodes' # nodes => \A n \in DOMAIN nodes :
         /\ n \in DOMAIN nodes'
         /\ nodes'[n].Parent = nodes[n].Parent
         /\ nodes'[n].FirstChild = nodes[n].FirstChild
         /\ nodes'[n].LastChild = nodes[n].LastChild
         /\ nodes'[n].PrevSibling = nodes[n].PrevSibling
         /\ nodes'[n].NextSibling = nodes[n].NextSibling
         /\ nodes'[n].Type = nodes[n].Type
         /\ nodes'[n].Attrs = nodes[n].Attrs
         /\ nodes'[n].Data # nodes[n].Data
            => /\ nodes[n].Type = TextNode
               /\ nodes'[n].Data = Trim(nodes[n].Data)
               /\ \E k \in 1..NumStages :
                     /\ stages[k].kind = "Map" /\ st[k].pc = "recv"
                     /\ UpAvail(k) /\ UpNode(k) = n]_vars

\* a text node with a later sibling went through clean and was trimmed
C22_Witness ==
    /\ ppc = "done" /\ eos
    /\ \E n \in DOMAIN nodes :
         /\ nodes[n].Type = TextNode /\ nodes[n].Data # Text(n)
         /\ nodes[n].NextSibling # Nil

\* C23: Children() and Descendants(), read by a consumer that only receives,
\* never deliver a text node made of blank characters only; a text node they
\* deliver has, from the moment it is received, data that neither starts nor
\* ends with a blank character; and a drained stream has delivered every
\* other child (descendant) of the root.
C23_NoBlankTextDelivered ==
    ( /\ ppc \notin {"new", "panic"} /\ stages = ChildrenStages
      /\ closeCalls = 0 /\ firstCalls = 0 )
    => LET BlankOnly(n) == /\ nodes[n].Type = TextNode
                           /\ \A i \in DOMAIN Text(n) : Text(n)[i] \in blank
           Below(n) == IF recursive THEN IsAncestor(root, n)
                       ELSE nodes[n].Parent = root
       IN /\ \A i \in DOMAIN received :
                LET n == received[i] d == nodes[received[i]].Data
                IN /\ ~BlankOnly(n)
                   /\ nodes[n].Type = TextNode
                      => d # <<>> /\ d[1] \notin blank /\ d[Len(d)] \notin blank
          /\ eos => Range(received)
                      = { n \in DOMAIN nodes : Below(n) /\ ~BlankOnly(n) }

\* a padded text node was delivered and a blank one was not
C23_Witness ==
    /\ stages = ChildrenStages /\ closeCalls = 0 /\ firstCalls = 0 /\ eos
    /\ \E i \in DOMAIN received :
         /\ nodes[received[i]].Type = TextNode
         /\ Text(received[i])[1] \in blank
    /\ \E n \in DOMAIN nodes :
         /\ nodes[n].Parent = root /\ nodes[n].Type = TextNode
         /\ n \notin Range(received)

\* C24: ChildrenMatching(p) on r (here p = is an <a> element), drained by a
\* consumer that only receives, delivers exactly the direct children of r
\* that are not blank text and satisfy p, each once, in left-to-right order,
\* and no deeper descendant of r.
C24_ChildrenMatching ==
    ( /\ stages = ChildrenStages \o <<FilterStage("IsTag")>> /\ ~recursive
      /\ closeCalls = 0 /\ firstCalls = 0 /\ eos )
    => /\ Range(received)
            = { n \in DOMAIN nodes :
                  /\ nodes[n].Parent = root
                  /\ nodes[n].Type = ElementNode /\ nodes[n].Data = <<"a">> }
       /\ \A i, j \in DOMAIN received :
             i < j => IsLaterSibling(received[i], received[j])

\* a child was delivered, and a grandchild that satisfies p was not
C24_Witness ==
    /\ stages = ChildrenStages \o <<FilterStage("IsTag")>> /\ ~recursive
    /\ closeCalls = 0 /\ firstCalls = 0 /\ eos
    /\ received # <<>>
    /\ \E n \in DOMAIN nodes :
         /\ IsAncestor(root, n) /\ nodes[n].Parent # root
         /\ nodes[n].Type = ElementNode /\ nodes[n].Data = <<"a">>

\* C25: DescendantsMatching(p) on r (p = is an <a> element), drained by a
\* consumer that only receives, delivers every descendant of r that
\* satisfies p, each once and in pre-order, whether or not the nodes above it
\* satisfy p.
C25_DescendantsMatching ==
    ( /\ stages = ChildrenStages \o <<FilterStage("IsTag")>> /\ recursive
      /\ closeCalls = 0 /\ firstCalls = 0 /\ eos )
    => /\ Range(received)
            = { n \in DOMAIN nodes :
                  /\ IsAncestor(root, n)
                  /\ nodes[n].Type = ElementNode /\ nodes[n].Data = <<"a">> }
       /\ \A i, j \in DOMAIN received :
             i < j => \/ IsAncestor(received[i], received[j])
                      \/ \E x, y \in DOMAIN nodes :
                            /\ InSubtree(x, received[i])
                            /\ InSubtree(y, received[j])
                            /\ IsLaterSibling(x, y)

\* a delivered node lies below a child of r that fails p
C25_Witness ==
    /\ stages = ChildrenStages \o <<FilterStage("IsTag")>> /\ recursive
    /\ closeCalls = 0 /\ firstCalls = 0 /\ eos
    /\ \E i \in DOMAIN received :
         /\ nodes[received[i]].Parent # root
         /\ nodes[nodes[received[i]].Parent].Data # <<"a">>

\* C30: once the producer's select has received the token it goes on to
\* close its output: the send that puts the token back can proceed (nobody
\* but the producer receives from exit, so a put-back that cannot proceed
\* never will, and close(out) is never reached).
C30_CancelledProducerCloses == ppc = "putback" => ENABLED ProducerPutback

\* ------------------------------------------------------- methods of Node
\* The keys and values the attribute methods are tried with; "class" is a
\* key no attribute has.
AttrKeys == {"id", "href"}
AttrVals == {<<"x">>, <<"y">>}
AskedKeys == AttrKeys \cup {"class"}
DefaultValue == <<"d">>

SeqsUpTo(S, n) == UNION { [1..m -> S] : m \in 0..n }

AttrLists == SeqsUpTo([Key : AttrKeys, Val : AttrVals], MaxAttrs)

\* the payloads CleanData is tried on
DataChars == {" ", "\t", "b"}
Payloads == SeqsUpTo(DataChars, MaxData)

\* A node standing alone, for the calls of its methods.
LoneNode(type, data, attrs) ==
    [ Parent |-> Nil, FirstChild |-> Nil, LastChild |-> Nil,
      PrevSibling |-> Nil, NextSibling |-> Nil,
      Type |-> type, Data |-> data, Attrs |-> attrs ]

InitNode ==
    \/ \E attrs \in AttrLists :
          Called(<<LoneNode(ElementNode, <<"a">>, attrs)>>, 1, FALSE, <<>>)
    \/ \E type \in {TextNode, ElementNode} : \E data \in Payloads :
          Called(<<LoneNode(type, data, <<>>)>>, 1, FALSE, <<>>)

streamVars == <<ppc, stack, out, outClosed, exit, st, cpc, received, eos, closed,
                closeCalls, firstCalls, firstResult, closedAt, drain, tokensSent>>

\* node.HasAttr(attrKey)
HasAttrCall(attrKey) ==
    /\ call' = [fn |-> "HasAttr", key |-> attrKey,
                ret |-> Returned(HasAttr(nodes[root].Attrs, attrKey))]
    /\ UNCHANGED <<taskVars, treeVars, streamVars>>

\* node.Attr(attrKey)
AttrCall(attrKey) ==
    /\ call' = [fn |-> "Attr", key |-> attrKey,
                ret |-> Attr(nodes[root].Attrs, attrKey)]
    /\ UNCHANGED <<taskVars, treeVars, streamVars>>

\* node.AttrOrDefault(attrKey, defaultValue)
AttrOrDefaultCall(attrKey) ==
    /\ call' = [fn |-> "AttrOrDefault", key |-> attrKey,
                ret |-> AttrOrDefault(nodes[root].Attrs, attrKey, DefaultValue)]
    /\ UNCHANGED <<taskVars, treeVars, streamVars>>

\* node.CleanData(), called on the node once more
CleanDataCall ==
    /\ call.fn = "CleanData" => call.calls < MaxCleans
    /\ nodes' = CleanData(nodes, root)
    /\ call' = IF call.fn = "CleanData"
               THEN [call EXCEPT !.calls = @ + 1]
               ELSE [fn |-> "CleanData", calls |-> 1, was |-> nodes[root].Data,
                     once |-> nodes'[root].Data]
    /\ UNCHANGED <<taskVars, root, recursive, stages, streamVars>>

NodeNext ==
    \/ \E attrKey \in AskedKeys :
          \/ HasAttrCall(attrKey)
          \/ AttrCall(attrKey)
          \/ AttrOrDefaultCall(attrKey)
    \/ CleanDataCall

SpecNode == InitNode /\ [][NodeNext]_vars

\* C26: Attr(key) panics exactly when no attribute of the node has that key;
\* AttrOrDefault(key, d) never panics and returns d in that case; when the
\* key is present, once or several times, both return the value of the first
\* attribute with that key; HasAttr(key) is true exactly when Attr(key) does
\* not panic.
C26_AttrStrictAndDefault ==
    call.fn \in {"HasAttr", "Attr", "AttrOrDefault"}
    => LET attrs == nodes[root].Attrs
           at == { i \in DOMAIN attrs : attrs[i].Key = call.key }
           present == at # {}
           first == attrs[SetMin(at)].Val
       IN /\ call.fn = "Attr"
             => /\ call.ret.panic <=> ~present
                /\ present => call.ret.val = first
                /\ HasAttr(attrs, call.key) <=> ~call.ret.panic
          /\ call.fn = "AttrOrDefault"
             => /\ ~call.ret.panic
                /\ call.ret.val = IF present THEN first ELSE DefaultValue
                /\ present => call.ret = Attr(attrs, call.key)
          /\ call.fn = "HasAttr"
             => /\ ~call.ret.panic
                /\ call.ret.val <=> present
                /\ call.ret.val <=> ~Attr(attrs, call.key).panic

\* Attr on a node that has the key twice, with two values
C26_Witness ==
    /\ call.fn = "Attr" /\ ~call.ret.panic
    /\ \E i, j \in DOMAIN nodes[root].Attrs :
         /\ i < j
         /\ nodes[root].Attrs[i].Key = call.key
         /\ nodes[root].Attrs[j].Key = call.key
         /\ nodes[root].Attrs[i].Val # nodes[root].Attrs[j].Val
         /\ call.ret.val = nodes[root].Attrs[i].Val

\* C28: CleanData applied twice to a node leaves the Data that applying it
\* once left, and applied to a node that is not a TextNode it leaves Data as
\* it was.
C28_CleanDataIdempotent ==
    call.fn = "CleanData"
    => /\ call.calls >= 2 => nodes[root].Data = call.once
       /\ nodes[root].Type # TextNode
          => (call.once = call.was /\ nodes[root].Data = call.was)

\* a text node with two leading blanks, cleaned twice
C28_Witness ==
    /\ call.fn = "CleanData" /\ call.calls = 2
    /\ nodes[root].Type = TextNode
    /\ Len(call.was) = 3 /\ call.was[1] \in blank /\ call.was[2] \in blank
    /\ call.once = <<"b">>

\* ---------------------------------------------------------------- WrapTree
\* The tree WrapTree reads (html.Node has the links, Type, Data and Attr of
\* Node) is the one in nodes; the nodes it allocates are numbered in order of
\* allocation in a heap of their own.

\* n.Attrs = make([]Attribute, len(hnode.Attr)), then one append for each
\* attribute of hnode
ZeroAttribute == [Key |-> "", Val |-> <<>>]
WrapAttrs(hattrs) == [i \in 1..Len(hattrs) |-> ZeroAttribute] \o hattrs

\* n := new(Node), then the copy of the data
NewNode(h) ==
    [ Parent |-> Nil, FirstChild |-> Nil, LastChild |-> Nil,
      PrevSibling |-> Nil, NextSibling |-> Nil,
      Type |-> nodes[h].Type, Data |-> nodes[h].Data,
      Attrs |-> WrapAttrs(nodes[h].Attrs) ]

\* mutant: the new child is not given its PrevSibling
LinkChildNoPrev(hp, n, newChild) ==
    [hp EXCEPT ![newChild].Parent = n,
               ![hp[n].LastChild].NextSibling = newChild,
               ![n].LastChild = newChild]

\* the body of the loop over the later children
LinkChild(hp, n, newChild) ==
    [hp EXCEPT ![newChild].Parent = n,
               ![newChild].PrevSibling = hp[n].LastChild,
               ![hp[n].LastChild].NextSibling = newChild,
               ![n].LastChild = newChild]

\* the first child: n.FirstChild = WrapTree(...); n.FirstChild.Parent = n;
\* n.LastChild = n.FirstChild
LinkFirstChild(hp, n, child) ==
    [hp EXCEPT ![n].FirstChild = child, ![child].Parent = n,
               ![n].LastChild = child]

\* WrapTree(hnode) with the heap it allocates in: the heap afterwards and the
\* node returned.
RECURSIVE WrapTree(_, _)
RECURSIVE WrapSiblings(_, _, _)
WrapTree(hp, hnode) ==
    IF hnode = Nil THEN [heap |-> hp, node |-> Nil]
    ELSE LET n == Len(hp) + 1
             made == Append(hp, NewNode(hnode))
         IN IF nodes[hnode].FirstChild = Nil THEN [heap |-> made, node |-> n]
            ELSE LET first == WrapTree(made, nodes[hnode].FirstChild)
                 IN [heap |-> WrapSiblings(
                                 LinkFirstChild(first.heap, n, first.node), n,
                                 nodes[nodes[hnode].FirstChild].NextSibling),
                     node |-> n]

\* for hchild := hnode.FirstChild.NextSibling; hchild != nil; ...
WrapSiblings(hp, n, hchild) ==
    IF hchild = Nil THEN hp
    ELSE LET newChild == WrapTree(hp, hchild)
         IN WrapSiblings(LinkChild(newChild.heap, n, newChild.node), n,
                         nodes[hchild].NextSibling)

\* WrapTree is called on any node of a parsed tree, or on nil.
InitWrap ==
    \E n \in 1..MaxNodes : \E pv \in ParentVectors(n) : \E lab \in Labellings :
    \E hnode \in 0..n :
        Called(TreeOf(pv, lab), hnode, FALSE, <<>>)

WrapTreeCall ==
    /\ call.fn = "none"
    /\ call' = [fn |-> "WrapTree", ret |-> WrapTree(<<>>, root)]
    /\ UNCHANGED <<taskVars, treeVars, streamVars>>

\* UnwrapTree runs the same code from Node to html.Node, reading the tree
\* that WrapTree built in the heap src.
\* h := new(html.Node), then the copy of the data;
\* h.Attr = make([]html.Attribute, len(node.Attrs)), then the appends
NewHtmlNode(src, node) ==
    [ Parent |-> Nil, FirstChild |-> Nil, LastChild |-> Nil,
      PrevSibling |-> Nil, NextSibling |-> Nil,
      Type |-> src[node].Type, Data |-> src[node].Data,
      Attrs |-> WrapAttrs(src[node].Attrs) ]

RECURSIVE UnwrapTree(_, _, _)
RECURSIVE UnwrapSiblings(_, _, _, _)
UnwrapTree(src, hp, node) ==
    IF node = Nil THEN [heap |-> hp, node |-> Nil]
    ELSE LET h == Len(hp) + 1
             made == Append(hp, NewHtmlNode(src, node))
         IN IF src[node].FirstChild = Nil THEN [heap |-> made, node |-> h]
            ELSE LET first == UnwrapTree(src, made, src[node].FirstChild)
                 IN [heap |-> UnwrapSiblings(src,
                                 LinkFirstChild(first.heap, h, first.node), h,
                                 src[src[node].FirstChild].NextSibling),
                     node |-> h]

\* for child := node.FirstChild.NextSibling; child != nil; ...
UnwrapSiblings(src, hp, h, child) ==
    IF child = Nil THEN hp
    ELSE LET newChild == UnwrapTree(src, hp, child)
         IN UnwrapSiblings(src, LinkChild(newChild.heap, h, newChild.node), h,
                           src[child].NextSibling)

\* UnwrapTree is called on what WrapTree returned
UnwrapTreeCall ==
    /\ call.fn = "WrapTree"
    /\ call' = [fn |-> "UnwrapTree", wrapped |-> call.ret,
                ret |-> UnwrapTree(call.ret.heap, <<>>, call.ret.node)]
    /\ UNCHANGED <<taskVars, treeVars, streamVars>>

WrapNext == WrapTreeCall \/ UnwrapTreeCall

SpecWrap == InitWrap /\ [][WrapNext]_vars

\* the sibling chain from c on, cut after fuel nodes
RECURSIVE Chain(_, _, _)
Chain(hp, c, fuel) ==
    IF c = Nil \/ fuel = 0 THEN <<>>
    ELSE <<c>> \o Chain(hp, hp[c].NextSibling, fuel - 1)

\* C29: in the tree WrapTree built, for every node the sibling chain from
\* FirstChild ends after finitely many nodes, repeats none and ends at
\* LastChild; every node of it has the owner as Parent; PrevSibling and
\* NextSibling agree with each other; a node without FirstChild has no
\* LastChild; the returned root has no Parent, PrevSibling or NextSibling.
C29_WrapTreeWellLinked ==
    call.fn = "WrapTree"
    => LET hp == call.ret.heap
       IN /\ \A o \in DOMAIN hp :
                LET chain == Chain(hp, hp[o].FirstChild, Len(hp) + 1)
                IN /\ Len(chain) <= Len(hp)
                   /\ \A i, j \in DOMAIN chain : i # j => chain[i] # chain[j]
                   /\ \A i \in DOMAIN chain : hp[chain[i]].Parent = o
                   /\ hp[o].LastChild
                        = IF chain = <<>> THEN Nil ELSE chain[Len(chain)]
                   /\ hp[o].FirstChild # Nil
                      => hp[hp[o].FirstChild].PrevSibling = Nil
                   /\ hp[o].NextSibling # Nil
                      => hp[hp[o].NextSibling].PrevSibling = o
                   /\ hp[o].PrevSibling # Nil
                      => hp[hp[o].PrevSibling].NextSibling = o
          /\ call.ret.node # Nil
             => /\ hp[call.ret.node].Parent = Nil
                /\ hp[call.ret.node].PrevSibling = Nil
                /\ hp[call.ret.node].NextSibling = Nil
          /\ (call.ret.node = Nil) <=> (root = Nil)

\* WrapTree was called on a node that has a parent and two children
C29_Witness ==
    /\ call.fn = "WrapTree" /\ root # Nil
    /\ nodes[root].Parent # Nil
    /\ call.ret.heap[call.ret.node].FirstChild
         # call.ret.heap[call.ret.node].LastChild

\* ------------------------------------ GetDocContentType and GetDocCharset
DocumentNode == 2

\* for node.Parent != nil { node = node.Parent }; return node
RECURSIVE Root(_, _)
Root(nd, n) == IF nd[n].Parent = Nil THEN n ELSE Root(nd, nd[n].Parent)

\* The documents: node 1 is the DocumentNode, every other node is a head
\* element, a meta element whose content attribute names a charset, a meta
\* element whose content attribute names none, or (a leaf only) a text node.
\* In the strings of attribute values "charset=" is one character.
DocKinds == {"head", "metacs", "meta", "text"}

ContentType(i) ==
    IF i % 2 = 0 THEN <<"text/html", ";", " ", "charset=", "utf-8">>
    ELSE <<"charset=", "latin1", " ", "x">>

DocNodeOf(pv, kinds, i) ==
    LET sibs == ChildrenOf(pv, pv[i])
        kind == IF i = 1 THEN "document" ELSE kinds[i]
    IN [ Parent      |-> pv[i],
         FirstChild  |-> FirstOrNil(ChildrenOf(pv, i)),
         LastChild   |-> LastOrNil(ChildrenOf(pv, i)),
         PrevSibling |-> LastOrNil({ d \in sibs : d < i }),
         NextSibling |-> FirstOrNil({ d \in sibs : d > i }),
         Type        |-> IF kind = "document" THEN DocumentNode
                         ELSE IF kind = "text" THEN TextNode ELSE ElementNode,
         Data        |-> IF kind = "head" THEN <<"head">>
                         ELSE IF kind \in {"meta", "metacs"} THEN <<"meta">>
                         ELSE IF kind = "text" THEN Text(i) ELSE <<>>,
         Attrs       |-> IF kind = "metacs"
                         THEN <<[Key |-> "http-equiv", Val |-> <<"Content-Type">>],
                                [Key |-> "content", Val |-> ContentType(i)]>>
                         ELSE IF kind = "meta"
                         THEN <<[Key |-> "content", Val |-> <<"text/html">>]>>
                         ELSE <<>> ]

DocTreeOf(pv, kinds) == [ i \in DOMAIN pv |-> DocNodeOf(pv, kinds, i) ]

\* root.DescendantsByTag("head")
HeadStages == ChildrenStages \o <<FilterStage("IsHead")>>

\* mutant: the second stream looks for a tag, as the first one does
MetaStagesByTag == ChildrenStages \o <<FilterStage("IsHead")>>

\* head.DescendantsByAttrValueContaining("content", "charset=")
MetaStages == ChildrenStages \o <<FilterStage("Charset")>>

\* errors.New(...): an error is its message, NoError is the nil error
NoError == "nil"
HeadNotFound == "GetDocCharset: head not found"
MetaNotFound == "GetDocCharset: meta not found"

\* strings.Split(s, sep)[0] for a separator of one character
RECURSIVE BeforeSep(_, _)
BeforeSep(s, sep) ==
    IF s = <<>> \/ Head(s) = sep THEN <<>>
    ELSE <<Head(s)>> \o BeforeSep(Tail(s), sep)

\* what follows the first separator
RECURSIVE AfterSep(_, _)
AfterSep(s, sep) ==
    IF s = <<>> THEN <<>>
    ELSE IF Head(s) = sep THEN Tail(s) ELSE AfterSep(Tail(s), sep)

\* strings.Split(s, sep)[1]: the index is out of range when s has no sep
SplitSecond(s, sep) ==
    IF Contains(s, <<sep>>) THEN Returned(BeforeSep(AfterSep(s, sep), sep))
    ELSE Panicked

\* what a call returns: (string, error), or a panic
Result(v, e) == [panic |-> FALSE, val |-> v, err |-> e]
Panic == [panic |-> TRUE, val |-> <<>>, err |-> NoError]
NoReturn == [panic |-> FALSE, val |-> <<>>, err |-> "none"]

\* GetDocCharset after content, err := GetDocContentType(node)
GetDocCharset(content) ==
    IF content.err # NoError THEN Result(<<>>, content.err)
    ELSE LET charsetWithBullshit == SplitSecond(content.val, "charset=")
         IN IF charsetWithBullshit.panic THEN Panic
            ELSE Result(BeforeSep(BeforeSep(charsetWithBullshit.val, ";"), " "),
                        NoError)

\* GetDocContentType returns content to GetDocCharset
Finish(c, content) == [c EXCEPT !.pc = "returned", !.content = content]

\* GetDocCharset(node) is called, and calls GetDocContentType(node): root is
\* node.Root() and the stream root.DescendantsByTag("head") is about to be
\* built.
InitDoc ==
    \E n \in 1..MaxNodes : \E pv \in ParentVectors(n) :
    \E kinds \in [2..n -> DocKinds] : \E node \in {1, n} :
        /\ \A i \in 2..n : kinds[i] = "text" => ChildrenOf(pv, i) = {}
        /\ NewStream(DocTreeOf(pv, kinds), Root(DocTreeOf(pv, kinds), node),
                     TRUE, HeadStages)
        /\ NoTasks
        /\ call = [fn |-> "GetDocCharset", pc |-> "head", node |-> node,
                   content |-> NoReturn, ret |-> NoReturn]

\* .First() on the stream just built
DocFirst ==
    /\ call.pc \in {"head", "meta"}
    /\ firstResult = NoResult
    /\ ConsumerFirstCall

\* First() has returned to GetDocContentType
FirstReturned == cpc = "idle" /\ firstResult # NoResult

\* head == nil, meta == nil
IsNil(n) == n = Nil

\* if head == nil { return "", errors.New("GetDocCharset: head not found") }
DocHeadNotFound ==
    /\ call.pc = "head"
    /\ FirstReturned
    /\ IsNil(firstResult)
    /\ call' = Finish(call, Result(<<>>, HeadNotFound))
    /\ UNCHANGED <<taskVars, treeVars, streamVars>>

\* meta := head.DescendantsByAttrValueContaining("content", "charset=")
\* the second stream is built on head; nothing stops the goroutines of the
\* first one, which the caller no longer reads
DocHeadFound ==
    /\ call.pc = "head"
    /\ FirstReturned
    /\ ~IsNil(firstResult)
    /\ call' = [call EXCEPT !.pc = "meta"]
    /\ root' = firstResult
    /\ stages' = MetaStages
    /\ ppc' = "new"
    /\ stack' = <<>>
    /\ out' = <<>>
    /\ outClosed' = FALSE
    /\ exit' = [c \in 0..Len(MetaStages) |-> 0]
    /\ st' = [k \in 1..Len(MetaStages) |->
                [pc |-> "new", node |-> Nil, count |-> 0]]
    /\ cpc' = "new"
    /\ received' = <<>>
    /\ eos' = FALSE
    /\ closed' = FALSE
    /\ closeCalls' = 0
    /\ firstCalls' = 0
    /\ firstResult' = NoResult
    /\ closedAt' = NoClose
    /\ tokensSent' = 0
    /\ UNCHANGED <<taskVars, nodes, recursive, drain>>

\* if meta == nil { return "", errors.New("GetDocCharset: meta not found") }
DocMetaNotFound ==
    /\ call.pc = "meta"
    /\ FirstReturned
    /\ IsNil(firstResult)
    /\ call' = Finish(call, Result(<<>>, MetaNotFound))
    /\ UNCHANGED <<taskVars, treeVars, streamVars>>

\* return meta.Attr("content"), nil
DocMetaFound ==
    /\ call.pc = "meta"
    /\ FirstReturned
    /\ ~IsNil(firstResult)
    /\ call' = LET content == Attr(nodes[firstResult].Attrs, "content")
               IN Finish(call, IF content.panic THEN Panic
                               ELSE Result(content.val, NoError))
    /\ UNCHANGED <<taskVars, treeVars, streamVars>>

\* GetDocCharset: if err != nil { return "", err }, else the three Splits
GetDocCharsetReturn ==
    /\ call.pc = "returned"
    /\ call' = [call EXCEPT !.pc = "done", !.ret = GetDocCharset(call.content)]
    /\ UNCHANGED <<taskVars, treeVars, streamVars>>

\* The Map stage of the first stream still cleans the text nodes that were
\* in flight when First() returned, at any moment of the second stream
\* (what it does after GetDocContentType has returned is left out).
LeakedClean(n) ==
    /\ call.pc = "meta"
    /\ nodes[n].Type = TextNode
    /\ nodes[n].Data # Trim(nodes[n].Data)
    /\ nodes' = CleanData(nodes, n)
    /\ UNCHANGED <<taskVars, call, root, recursive, stages, streamVars>>

\* Filter(predicateNotBlank) of the second stream reads node.Data while that
\* write may be under way; the two are not synchronised, and the predicate
\* may see a string that is neither the old nor the new one: it answers
\* either way.
RacyFilterRecv(k) ==
    /\ call.pc = "meta"
    /\ stages[k].kind = "Filter"
    /\ stages[k].pred = "NotBlank"
    /\ st[k].pc = "recv"
    /\ UpAvail(k)
    /\ nodes[UpNode(k)].Type = TextNode
    /\ nodes[UpNode(k)].Data # Trim(nodes[UpNode(k)].Data)
    /\ out' = OutAfterRecv(k)
    /\ st' = IF ~Eval(stages[k].pred, nodes, UpNode(k))
             THEN [StAfterRecv(k) EXCEPT ![k] = Holding(k, UpNode(k))]
             ELSE StAfterRecv(k)
    /\ UNCHANGED <<taskVars, call, treeVars, ppc, stack, outClosed, exit, consumerVars,
                   tokensSent>>

\* the goroutines of the stream the caller holds
DocStageNext ==
    \E k \in 1..NumStages :
        \/ FilterRecv(k)
        \/ RacyFilterRecv(k)
        \/ MapRecv(k)
        \/ StageEnd(k)
        \/ StageClose(k)

\* the steps of GetDocCharset and of the GetDocContentType it calls
DocCallerNext ==
    \/ DocFirst
    \/ ConsumerFirstRecv
    \/ ConsumerFirstEnd
    \/ ConsumerCloseSend
    \/ DocHeadNotFound
    \/ DocHeadFound
    \/ DocMetaNotFound
    \/ DocMetaFound
    \/ GetDocCharsetReturn

NextDoc ==
    \/ ProducerNext
    \/ DocStageNext
    \/ DocCallerNext
    \/ \E n \in DOMAIN nodes : LeakedClean(n)

SpecDoc == InitDoc /\ [][NextDoc]_vars

\* The head elements of the document, in document order.
DocHeads ==
    LET IsHead(n) == nodes[n].Type = ElementNode /\ nodes[n].Data = <<"head">>
    IN SelectSeq(Walk(nodes[Root(nodes, call.node)].FirstChild, TRUE), IsHead)

\* The descendants of head with a content attribute whose value contains
\* "charset=", in document order.
CharsetMetas(head) ==
    LET Names(n) ==
            \E i \in DOMAIN nodes[n].Attrs :
                /\ nodes[n].Attrs[i].Key = "content"
                /\ Contains(nodes[n].Attrs[i].Val, <<"charset=">>)
    IN SelectSeq(Walk(nodes[head].FirstChild, TRUE), Names)

\* the value of the content attribute of node n
ContentOf(n) ==
    LET at == { i \in DOMAIN nodes[n].Attrs : nodes[n].Attrs[i].Key = "content" }
    IN nodes[n].Attrs[SetMin(at)].Val

\* C27: GetDocContentType neither panics nor blocks; it returns a non-nil
\* error when the document has no head element or when its first head has no
\* descendant whose content attribute contains "charset=", and otherwise the
\* value of that attribute of the first such descendant with a nil error;
\* GetDocCharset returns the error of GetDocContentType unchanged.
C27_DocContentType ==
    /\ ppc # "panic"
    /\ call.pc # "done"
       => \/ ENABLED DocCallerNext
          \/ /\ cpc \in {"new", "First_recv"}
             /\ ENABLED (ProducerNext \/ DocStageNext)
    /\ call.pc \in {"returned", "done"}
       => LET noHead == DocHeads = <<>>
              noMeta == ~noHead /\ CharsetMetas(DocHeads[1]) = <<>>
          IN /\ ~call.content.panic
             /\ call.content.err # NoError <=> (noHead \/ noMeta)
             /\ ~(noHead \/ noMeta)
                => call.content =
                     Result(ContentOf(CharsetMetas(DocHeads[1])[1]), NoError)
    /\ (call.pc = "done" /\ call.content.err # NoError)
       => /\ ~call.ret.panic
          /\ call.ret.err = call.content.err

\* GetDocCharset returned the error "meta not found" for a document that has
\* a head, and outside that head a meta element that names a charset.
C27_Witness ==
    /\ call.pc = "done"
    /\ call.fn = "GetDocCharset"
    /\ call.ret.err = MetaNotFound
    /\ DocHeads # <<>>
    /\ \E m \in DOMAIN nodes :
          /\ nodes[m].Data = <<"meta">>
          /\ Contains(ContentOf(m), <<"charset=">>)
          /\ ~IsAncestor(DocHeads[1], m)


\* ------------------------------------------------ one Close() on a stream
\* The calls of Close() issued on the stream so far, by the consumer, by
\* First() or by a Limit stage: those that sent their token and those that
\* are at the send.
ClosesIssued ==
    tokensSent + (IF cpc \in {"Close", "First_Close"} THEN 1 ELSE 0)
               + Cardinality({ k \in 1..NumStages : st[k].pc = "exit_send" })

\* C31: while at most one Close() has been issued on the stream, the exit
\* channel never holds more than one token, and whenever the producer is at
\* its put-back send exit <- true, at whatever depth of the recursion, the
\* send can take place at once.
C31_PutbackNeverBlocks ==
    ClosesIssued <= 1
    => /\ \A c \in DOMAIN exit : exit[c] <= 1
       /\ ppc = "putback" => ENABLED ProducerPutback

\* The only Close() sent its token and the producer took it in a recursive
\* call, two levels deep, with calls above it that still have children to
\* visit and will take the token again.
C31_Witness ==
    /\ ClosesIssued = 1
    /\ tokensSent = 1
    /\ ppc = "putback"
    /\ Len(stack) >= 2
    /\ nodes[stack[1]].NextSibling # Nil


\* The consumer made one call of Close(), which is the only Close() issued
\* on the stream, and otherwise only received.
ClosedOnce ==
    /\ closeCalls = 1
    /\ firstCalls = 0
    /\ drain.calls = 0
    /\ cpc = "idle"
    /\ ClosesIssued = 1

RespectsClosed ==
    /\ outClosed => (outClosed' /\ Len(out') <= Len(out))
    /\ (ppc = "close" /\ ppc' # "close") => ~outClosed
    /\ \A k \in 1..NumStages : st[k].pc = "done" => st'[k].pc = "done"

\* C33: in the pipeline of TreeIterator, Filter, Map and Limit no goroutine
\* sends on a channel that was closed and no Nodes channel is closed twice,
\* whatever the interleaving of producer, stages, receives and Close() calls.
C33_NoSendOnClosedNoDoubleClose == [][RespectsClosed]_vars

\* The producer closed out and a Limit stage closed its channel after the
\* consumer called Close(), while the stage before Limit still holds a node
\* that nobody will receive.
C33_Witness ==
    /\ outClosed
    /\ closeCalls >= 1
    /\ tokensSent >= 1
    /\ \E k \in 2..NumStages :
          /\ stages[k].kind = "Limit"
          /\ st[k].pc = "done"
          /\ st[k - 1].pc = "send"


\* What stage k receives if its input is drained: the output of the stages
\* before it.
StageInput(k) == StreamOutput(SubSeq(stages, 1, k - 1), recursive)

\* Stage k is a Limit stage whose input has at most max elements.
LimitNotReached(k) ==
    /\ stages[k].kind = "Limit"
    /\ Len(StageInput(k)) <= stages[k].max

Emitted ==
    Range(received) \cup Range(out)
        \cup { st[k].node : k \in { j \in 1..NumStages : st[j].pc = "send" } }

\* C35: a stream rooted at r delivers, and holds in its channels, only
\* proper descendants of r (only children of r when it is not recursive):
\* never r itself, a sibling or an ancestor of r, or a node below those.
C35_OnlyBelowRoot ==
    \A n \in Emitted :
        /\ n # root
        /\ IsAncestor(root, n)
        /\ ~recursive => nodes[n].Parent = root

\* A recursive stream on a node that has a parent and a next sibling was
\* drained to the end of the sequence and delivered something.
C35_Witness ==
    /\ eos
    /\ OnlyReceived
    /\ recursive
    /\ received # <<>>
    /\ nodes[root].Parent # Nil
    /\ nodes[root].NextSibling # Nil


\* The nodes of the tree below and including the node WrapTree was called
\* on, in the order in which WrapTree allocates their copies.
Sources == IF root = Nil THEN <<>> ELSE <<root>> \o Walk(nodes[root].FirstChild, TRUE)

\* Node i of the heap hp has the Type, the Data and the attribute list of the
\* i-th source node.
SameContent(hp) ==
    /\ Len(hp) = Len(Sources)
    /\ \A i \in DOMAIN hp :
          /\ hp[i].Type = nodes[Sources[i]].Type
          /\ hp[i].Data = nodes[Sources[i]].Data
          /\ hp[i].Attrs = nodes[Sources[i]].Attrs

\* C36: every node WrapTree produces has the Type, the Data and an attribute
\* list equal to its source node's (same length, same pairs, same order), and
\* so has every node of UnwrapTree(WrapTree(t)).
C36_WrapTreeEquivalent ==
    call.fn \in {"WrapTree", "UnwrapTree"} => SameContent(call.ret.heap)


\* ------------------------------- concurrent variant: iterateOnDescendants
\* out := make(chan *html.Node, 20)
taskBufferSize == 20

\* a node iterateOnDescendants was not called on, a child no goroutine was
\* spawned for
NoTask ==
    [pc |-> "none", child |-> Nil, out |-> <<>>, closed |-> FALSE, exit |-> 0,
     wg |-> 0, cancelled |-> FALSE]
NoSub == [pc |-> "none"]

\* the predicate the variant is tried with: notBlank, which holds of every
\* element and of the text nodes that are not blank
ConcPredicate == "NotBlank"

\* the variables of the sequential stream that the variant does not use
seqVars ==
    <<stages, ppc, stack, out, outClosed, exit, st, closed, closeCalls,
      firstCalls, firstResult, closedAt, drain>>

\* iterateOnDescendants(node, predicate, recursive) is about to be called
InitConc ==
    \E n \in 1..MaxNodes : \E pv \in ParentVectors(n) : \E lab \in Labellings :
    \E r \in 1..n : \E rec \in BOOLEAN :
        /\ NewStream(TreeOf(pv, lab), r, rec, <<>>)
        /\ call = [fn |-> "iterateOnDescendants",
                   predicate |-> ConcPredicate]
        /\ task = [i \in 1..n |-> NoTask]
        /\ sub = [i \in 1..n |-> NoSub]
        /\ fwd = [i \in 1..n |-> "none"]

\* out, exit are made and the goroutine is started with
\* child := node.FirstChild
NewTask(n) == [NoTask EXCEPT !.pc = "loop", !.child = nodes[n].FirstChild]

\* the caller's call, on the root
IterateCall ==
    /\ cpc = "new"
    /\ task[root].pc = "none"
    /\ task' = [task EXCEPT ![root] = NewTask(root)]
    /\ cpc' = "idle"
    /\ UNCHANGED <<sub, fwd, call, treeVars, seqVars, received, eos, tokensSent>>

\* mutant: the goroutine for the child is started without wg.Add(1)
WgAfterSpawnNoAdd(wg) == wg

\* wg.Add(1)
WgAfterSpawn(wg) == wg + 1

\* if recursive { wg.Add(1); go func() {...}() }, then
\* child = child.NextSibling
AfterBody(t) ==
    [t EXCEPT !.pc = "loop",
              !.child = nodes[t.child].NextSibling,
              !.wg = IF recursive THEN WgAfterSpawn(@) ELSE @]

SubAfterSpawn(n) ==
    IF recursive THEN [sub EXCEPT ![task[n].child].pc = "start"] ELSE sub

\* child == nil: the loop ends, wg.Wait() is next
TaskLoopEnd(n) ==
    /\ task[n].pc = "loop"
    /\ task[n].child = Nil
    /\ task' = [task EXCEPT ![n].pc = "wait"]
    /\ UNCHANGED <<sub, fwd, call, treeVars, seqVars, cpc, received, eos,
                   tokensSent>>

\* select, case <-exit: wg.Wait() is next, then close(out) and return
TaskSelectExit(n) ==
    /\ task[n].pc = "loop"
    /\ task[n].child # Nil
    /\ task[n].exit > 0
    /\ task' = [task EXCEPT ![n].exit = @ - 1, ![n].cancelled = TRUE,
                            ![n].pc = "wait"]
    /\ UNCHANGED <<sub, fwd, call, treeVars, seqVars, cpc, received, eos,
                   tokensSent>>

\* select, default: if predicate(child) the send is next, else the
\* goroutine for the child is spawned at once
TaskSelectDefault(n) ==
    /\ task[n].pc = "loop"
    /\ task[n].child # Nil
    /\ task[n].exit = 0
    /\ IF Eval(call.predicate, nodes, task[n].child)
       THEN /\ task' = [task EXCEPT ![n].pc = "send"]
            /\ UNCHANGED sub
       ELSE /\ task' = [task EXCEPT ![n] = AfterBody(@)]
            /\ sub' = SubAfterSpawn(n)
    /\ UNCHANGED <<fwd, call, treeVars, seqVars, cpc, received, eos, tokensSent>>

\* out <- clean(child), then the spawn
TaskSend(n) ==
    /\ task[n].pc = "send"
    /\ Len(task[n].out) < taskBufferSize
    /\ nodes' = CleanData(nodes, task[n].child)
    /\ task' = [task EXCEPT ![n] = AfterBody([@ EXCEPT !.out = Append(@, task[n].child)])]
    /\ sub' = SubAfterSpawn(n)
    /\ UNCHANGED <<fwd, call, root, recursive, seqVars, cpc, received, eos,
                   tokensSent>>

\* wg.Wait() returns; close(out)
TaskWaitClose(n) ==
    /\ task[n].pc = "wait"
    /\ task[n].wg = 0
    /\ task' = [task EXCEPT ![n].closed = TRUE, ![n].pc = "done"]
    /\ UNCHANGED <<sub, fwd, call, treeVars, seqVars, cpc, received, eos,
                   tokensSent>>

\* in, subexit := iterateOnDescendants(capturedChild, predicate, recursive);
\* go forward(exit, subexit)
SubStart(c) ==
    /\ sub[c].pc = "start"
    /\ task' = [task EXCEPT ![c] = NewTask(c)]
    /\ fwd' = [fwd EXCEPT ![c] = "recv"]
    /\ sub' = [sub EXCEPT ![c].pc = "recv"]
    /\ UNCHANGED <<call, treeVars, seqVars, cpc, received, eos, tokensSent>>

\* forwardNodes, one iteration: e := <-in; out <- e. The two are one step: out
\* has room for taskBufferSize nodes, more than a tree of the model has, so
\* that the send never waits.
forwardNodes(c) ==
    /\ sub[c].pc = "recv"
    /\ task[c].out # <<>>
    /\ Len(task[nodes[c].Parent].out) < taskBufferSize
    /\ task' = [task EXCEPT ![c].out = Tail(@),
                            ![nodes[c].Parent].out = Append(@, Head(task[c].out))]
    /\ UNCHANGED <<sub, fwd, call, treeVars, seqVars, cpc, received, eos,
                   tokensSent>>

\* forwardNodes: in is closed and empty; the deferred wg.Done()
SubEnd(c) ==
    /\ sub[c].pc = "recv"
    /\ task[c].out = <<>>
    /\ task[c].closed
    /\ sub' = [sub EXCEPT ![c].pc = "done"]
    /\ task' = [task EXCEPT ![nodes[c].Parent].wg = @ - 1]
    /\ UNCHANGED <<fwd, call, treeVars, seqVars, cpc, received, eos, tokensSent>>

\* forward(exit, subexit): e := <-in, in being the exit channel of the parent
FwdRecv(c) ==
    /\ fwd[c] = "recv"
    /\ task[nodes[c].Parent].exit > 0
    /\ task' = [task EXCEPT ![nodes[c].Parent].exit = @ - 1]
    /\ fwd' = [fwd EXCEPT ![c] = "send"]
    /\ UNCHANGED <<sub, call, treeVars, seqVars, cpc, received, eos, tokensSent>>

\* forward(exit, subexit): out <- e (subexit has capacity 1)
FwdSend(c) ==
    /\ fwd[c] = "send"
    /\ task[c].exit = 0
    /\ task' = [task EXCEPT ![c].exit = @ + 1]
    /\ fwd' = [fwd EXCEPT ![c] = "recv"]
    /\ UNCHANGED <<sub, call, treeVars, seqVars, cpc, received, eos, tokensSent>>

\* the caller: for child := range output, one node
ConcRecvNode ==
    /\ cpc = "idle"
    /\ task[root].out # <<>>
    /\ received' = Append(received, Head(task[root].out))
    /\ task' = [task EXCEPT ![root].out = Tail(@)]
    /\ UNCHANGED <<sub, fwd, call, treeVars, seqVars, cpc, eos, tokensSent>>

\* the caller: output is closed and empty, the loop ends
ConcRecvEnd ==
    /\ cpc = "idle"
    /\ ~eos
    /\ task[root].out = <<>>
    /\ task[root].closed
    /\ eos' = TRUE
    /\ UNCHANGED <<taskVars, call, treeVars, seqVars, cpc, received, tokensSent>>

\* the caller: exit <- true, once
ConcExitSend ==
    /\ cpc = "idle"
    /\ tokensSent = 0
    /\ task[root].exit = 0
    /\ task' = [task EXCEPT ![root].exit = @ + 1]
    /\ tokensSent' = 1
    /\ UNCHANGED <<sub, fwd, call, treeVars, seqVars, cpc, received, eos>>

\* the goroutines of the iteration
ConcGoroutineNext ==
    \E n \in DOMAIN nodes :
        \/ TaskLoopEnd(n)
        \/ TaskSelectExit(n)
        \/ TaskSelectDefault(n)
        \/ TaskSend(n)
        \/ TaskWaitClose(n)
        \/ SubStart(n)
        \/ forwardNodes(n)
        \/ SubEnd(n)
        \/ FwdRecv(n)
        \/ FwdSend(n)

ConcCallerNext ==
    \/ IterateCall
    \/ ConcRecvNode
    \/ ConcRecvEnd
    \/ ConcExitSend

NextConc == ConcGoroutineNext \/ ConcCallerNext

SpecConc == InitConc /\ [][NextConc]_vars


\* The descendants of the root that satisfy the predicate of the call.
Matching ==
    { d \in DOMAIN nodes : IsAncestor(root, d) /\ Eval(call.predicate, nodes, d) }

\* C37: in iterateOnDescendants(node, predicate, true), with a consumer that
\* sends nothing on exit, every node received is a descendant that satisfies
\* the predicate and is received once; at the end of the sequence every such
\* descendant was received; and when no goroutine can take a step and nothing
\* is left to receive, the output channel is closed.
C37_ConcurrentDeliversAllOnce ==
    (cpc = "idle" /\ recursive /\ tokensSent = 0)
    => /\ Range(received) \subseteq Matching
       /\ \A i, j \in DOMAIN received : i # j => received[i] # received[j]
       /\ eos => Range(received) = Matching
       /\ (~ENABLED ConcGoroutineNext /\ ~ENABLED ConcRecvNode)
          => task[root].closed

\* The consumer drained a recursive iteration to the end of the sequence and
\* received three nodes or more, in an order that is not the depth-first
\* one.
C37_Witness ==
    /\ cpc = "idle" /\ recursive /\ tokensSent = 0
    /\ eos
    /\ Len(received) >= 3
    /\ LET Keep(n) == Eval(call.predicate, nodes, n)
       IN received # SelectSeq(Walk(nodes[root].FirstChild, TRUE), Keep)


\* The token the consumer sent is in no exit channel and in no forwarder's
\* hands any more: whoever was to receive it has received it.
TokenGone ==
    /\ tokensSent = 1
    /\ \A n \in DOMAIN nodes : task[n].exit = 0 /\ fwd[n] # "send"

\* Task n is in flight: its loop has a child left to visit, or its goroutine
\* was spawned, has not yet made its call and will find children.
InFlightTask(n) ==
    \/ task[n].pc \in {"loop", "send"} /\ task[n].child # Nil
    \/ sub[n].pc = "start" /\ nodes[n].FirstChild # Nil

\* C38: the single token sent on the root's exit channel reaches every task
\* in flight: when the token has been passed on as far as it goes, no loop of
\* the iteration, the root's or a sub-iteration's, still has children to
\* visit without having received it.
C38_TokenReachesEveryTask ==
    TokenGone => \A n \in DOMAIN nodes : ~InFlightTask(n)


\* No goroutine of the iteration is left: every loop and every forwardNodes
\* goroutine that was started has returned, and so has every
\* forward(exit, subexit), which in the model never does (exit is never
\* closed, so its range loop has no end).
NoGoroutineLeft ==
    \A n \in DOMAIN nodes :
        /\ task[n].pc \in {"none", "done"}
        /\ sub[n].pc \in {"none", "done"}
        /\ fwd[n] = "none"

\* C40: once the consumer has drained the output to the end of the sequence
\* without sending anything on exit, no goroutine of the iteration remains,
\* the forward(exit, subexit) goroutines included.
C40_NoGoroutineLeftAfterDrain ==
    (eos /\ tokensSent = 0) => NoGoroutineLeft


\* ------------------------- WaitGroup variant: GetMatchingDescendents
\* Every call of GetMatchingDescendents is an entry of task, numbered in the
\* order of the calls, the caller's being number 1:
\*   [node, pc, next, child, out, closed, wg]
\* where next is the child that range GetChildren(node) yields next and child
\* is the loop variable. Every go func() of a loop is an entry of sub:
\*   [pc, parent, spawned, iter, node]
\* parent being the call whose loop spawned it, spawned the value of child at
\* the go statement and iter the call it makes.
RootTask == 1

\* the loop variable child is one variable for the whole loop ("shared") or a
\* new one in each iteration ("each"), depending on the version of the
\* language the package is built with
LoopVars == {"shared", "each"}

NewWgTask(n) ==
    [node |-> n, pc |-> "loop", next |-> nodes[n].FirstChild, child |-> Nil,
     out |-> <<>>, closed |-> FALSE, wg |-> 0]

\* GetMatchingDescendents(node, predicate) is about to be called
InitWg ==
    \E n \in 1..MaxNodes : \E pv \in ParentVectors(n) : \E lab \in Labellings :
    \E r \in 1..n : \E lv \in LoopVars :
        /\ NewStream(TreeOf(pv, lab), r, TRUE, <<>>)
        /\ call = [fn |-> "GetMatchingDescendents",
                   predicate |-> ConcPredicate, loopvar |-> lv]
        /\ task = <<>>
        /\ sub = <<>>
        /\ fwd = <<>>

\* the caller's call: out is made and the goroutine started
WgCall ==
    /\ cpc = "new"
    /\ task' = <<NewWgTask(root)>>
    /\ cpc' = "idle"
    /\ UNCHANGED <<sub, fwd, call, treeVars, seqVars, received, eos, tokensSent>>

\* go func() { ... }(): the new goroutine, not yet run
Spawned(t, c) ==
    Append(sub, [pc |-> "add", parent |-> t, spawned |-> c, iter |-> 0,
                 node |-> Nil])

\* for child := range GetChildren(node): the next child is received; if
\* predicate(child) the send is next, else the goroutine is spawned at once
WgLoopRecv(t) ==
    /\ task[t].pc = "loop"
    /\ task[t].next # Nil
    /\ LET c == task[t].next
       IN IF Eval(call.predicate, nodes, c)
          THEN /\ task' = [task EXCEPT ![t].child = c,
                                       ![t].next = nodes[c].NextSibling,
                                       ![t].pc = "send"]
               /\ UNCHANGED sub
          ELSE /\ task' = [task EXCEPT ![t].child = c,
                                       ![t].next = nodes[c].NextSibling]
               /\ sub' = Spawned(t, c)
    /\ UNCHANGED <<fwd, call, treeVars, seqVars, cpc, received, eos, tokensSent>>

\* out <- child, then go func() { ... }()
WgSend(t) ==
    /\ task[t].pc = "send"
    /\ Len(task[t].out) < taskBufferSize
    /\ task' = [task EXCEPT ![t].out = Append(@, task[t].child),
                            ![t].pc = "loop"]
    /\ sub' = Spawned(t, task[t].child)
    /\ UNCHANGED <<fwd, call, treeVars, seqVars, cpc, received, eos, tokensSent>>

\* the channel of GetChildren is closed: the loop ends
WgLoopEnd(t) ==
    /\ task[t].pc = "loop"
    /\ task[t].next = Nil
    /\ task' = [task EXCEPT ![t].pc = "wait"]
    /\ UNCHANGED <<sub, fwd, call, treeVars, seqVars, cpc, received, eos,
                   tokensSent>>

\* wg.Wait() returns: the counter is zero
WaitOver(t) == task[t].wg = 0

\* wg.Wait(); close(out)
WgWaitClose(t) ==
    /\ task[t].pc = "wait"
    /\ WaitOver(t)
    /\ task' = [task EXCEPT ![t].closed = TRUE, ![t].pc = "done"]
    /\ UNCHANGED <<sub, fwd, call, treeVars, seqVars, cpc, received, eos,
                   tokensSent>>

\* in the goroutine: wg.Add(1)
WgAdd(j) ==
    /\ sub[j].pc = "add"
    /\ task' = [task EXCEPT ![sub[j].parent].wg = @ + 1]
    /\ sub' = [sub EXCEPT ![j].pc = "call"]
    /\ UNCHANGED <<fwd, call, treeVars, seqVars, cpc, received, eos, tokensSent>>

\* the value of child the goroutine reads
ChildRead(j) ==
    IF call.loopvar = "shared" THEN task[sub[j].parent].child
    ELSE sub[j].spawned

\* in the goroutine: GetMatchingDescendents(child, predicate), the argument
\* of forward
WgSubCall(j) ==
    /\ sub[j].pc = "call"
    /\ task' = Append(task, NewWgTask(ChildRead(j)))
    /\ sub' = [sub EXCEPT ![j].pc = "recv", ![j].iter = Len(task) + 1]
    /\ UNCHANGED <<fwd, call, treeVars, seqVars, cpc, received, eos, tokensSent>>

\* forward: e := <-in
WgSubRecv(j) ==
    /\ sub[j].pc = "recv"
    /\ task[sub[j].iter].out # <<>>
    /\ sub' = [sub EXCEPT ![j].pc = "send",
                          ![j].node = Head(task[sub[j].iter].out)]
    /\ task' = [task EXCEPT ![sub[j].iter].out = Tail(@)]
    /\ UNCHANGED <<fwd, call, treeVars, seqVars, cpc, received, eos, tokensSent>>

\* forward: out <- e; a send on a closed channel panics
WgSubSend(j) ==
    /\ sub[j].pc = "send"
    /\ IF task[sub[j].parent].closed
       THEN /\ sub' = [sub EXCEPT ![j].pc = "panic"]
            /\ UNCHANGED task
       ELSE /\ Len(task[sub[j].parent].out) < taskBufferSize
            /\ task' = [task EXCEPT ![sub[j].parent].out = Append(@, sub[j].node)]
            /\ sub' = [sub EXCEPT ![j].pc = "recv", ![j].node = Nil]
    /\ UNCHANGED <<fwd, call, treeVars, seqVars, cpc, received, eos, tokensSent>>

\* forward returns: in is closed and empty; the deferred wg.Done()
WgSubEnd(j) ==
    /\ sub[j].pc = "recv"
    /\ task[sub[j].iter].out = <<>>
    /\ task[sub[j].iter].closed
    /\ sub' = [sub EXCEPT ![j].pc = "done"]
    /\ task' = [task EXCEPT ![sub[j].parent].wg = @ - 1]
    /\ UNCHANGED <<fwd, call, treeVars, seqVars, cpc, received, eos, tokensSent>>

\* the caller: for node := range out, one node
WgRecvNode ==
    /\ cpc = "idle"
    /\ task[RootTask].out # <<>>
    /\ received' = Append(received, Head(task[RootTask].out))
    /\ task' = [task EXCEPT ![RootTask].out = Tail(@)]
    /\ UNCHANGED <<sub, fwd, call, treeVars, seqVars, cpc, eos, tokensSent>>

\* the caller: out is closed and empty
WgRecvEnd ==
    /\ cpc = "idle"
    /\ ~eos
    /\ task[RootTask].out = <<>>
    /\ task[RootTask].closed
    /\ eos' = TRUE
    /\ UNCHANGED <<taskVars, call, treeVars, seqVars, cpc, received, tokensSent>>

WgGoroutineNext ==
    \/ \E t \in DOMAIN task :
          \/ WgLoopRecv(t)
          \/ WgSend(t)
          \/ WgLoopEnd(t)
          \/ WgWaitClose(t)
    \/ \E j \in DOMAIN sub :
          \/ WgAdd(j)
          \/ WgSubCall(j)
          \/ WgSubRecv(j)
          \/ WgSubSend(j)
          \/ WgSubEnd(j)

NextWg == WgCall \/ WgGoroutineNext \/ WgRecvNode \/ WgRecvEnd

SpecWg == InitWg /\ [][NextWg]_vars

\* C39: in GetMatchingDescendents the output channel of a call is closed
\* only after every goroutine its loop spawned has finished forwarding, so
\* that no forwarder sends on a closed channel, and a consumer that drains
\* the output has received every matching descendant at the end of the
\* sequence.
C39_ClosedAfterForwarders ==
    /\ \A j \in DOMAIN sub :
          /\ sub[j].pc # "panic"
          /\ task[sub[j].parent].closed => sub[j].pc = "done"
    /\ eos => Matching \subseteq Range(received)

=============================================================================
